---- MODULE Spec2Model ----
(***************************************************************************)
(* Model of the Slack knowledge-capture bot: the content store of          *)
(* src/utils/db.js (chunker, embedder, upsert, delete, similarity search,  *)
(* context assembly) and the webhook handler of src/routes/ingest.js.      *)
(*                                                                         *)
(* A text is a sequence of one-character strings.  A row of the messages   *)
(* table is a record with the columns of createMessagesTable.  Timestamps  *)
(* are small integers, similarities are integers in tenths (7 is 0.7).     *)
(***************************************************************************)
EXTENDS Integers, Sequences, FiniteSets, TLC

VARIABLES
    messages,   \* the messages table: a set of rows (ids are unique)
    nextId,     \* the SERIAL counter behind messages.id
    last,       \* the last completed operation, its arguments and its result
    calls,      \* number of the operations started so far that bound the run
    tasks,      \* the chunkAndStoreMessage calls in flight, one per task
    handler     \* the webhook handler of each request: its position, its event
                \* and what it did

vars == <<messages, nextId, last, calls, tasks, handler>>

----------------------------------------------------------------------------
(* Bounds of the model *)

MaxCalls == 2          \* storeMessage and chunkAndStoreMessage calls begun per run of
                       \* the store specifications; each can run as a task of its own
ChunkTokenBudget == 1  \* per-chunk budget used by the model's ingestion;
                       \* stands in for the 1000 of chunkAndStoreMessage so
                       \* that short texts split into several chunks

----------------------------------------------------------------------------
(* Input domains *)

Channels == {"C1", "C2"}
Threads == {"100.1", "200.2"}
Users == {"alice", "bob"}
Vectors == 1..4
NoTs == 0              \* messageTs = null
Timestamps == {1, 2}
Now == 3               \* new Date(): ingestion happens after the messages

\* the messages ingested: who wrote them and when
Senders == {[user |-> "alice", ts |-> 1], [user |-> "bob", ts |-> 2]}

\* title of a user as users.info reports it
TitleOf(u) == IF u = "alice" THEN "eng" ELSE "No title"

Doc1 == <<"a", "b", ".">>
Doc2 == <<"a", "b", ".", "c", "d", ".">>
Doc3 == <<"a", "b", ".", "a", "b", ".">>
Documents == {Doc1, Doc2, Doc3}
DocLong == <<"e", "f", "g", "h", "i", ".">>

\* contents passed to storeMessage directly
Friday == <<"F", "r", "i", ".">>
Monday == <<"M", "o", "n", ".">>
DirectContents == {Friday, Monday}

\* documents whose ingestion is cut short, and the most chunks one of them has
Doc4 == <<"c", "d", ".", "a", "b", ".", "e", ".">>
FailingDocuments == {Doc2, Doc4}

MaxChunks == 2

----------------------------------------------------------------------------
(* Text helpers: String.prototype.split(/[.!?]+/), trim, indexOf *)

Terminators == {".", "!", "?"}

\* the characters String.prototype.trim strips and the class \s matches: the
\* white space and the line terminators of ECMAScript.  A character that has
\* no escape of its own in a string is written as its JavaScript escape.
WhitespaceChars ==
    {" ", "\n", "\t", "\r", "\f", "\\v", "\\u00a0", "\\u1680", "\\u2000",
     "\\u2001", "\\u2002", "\\u2003", "\\u2004", "\\u2005", "\\u2006",
     "\\u2007", "\\u2008", "\\u2009", "\\u200a", "\\u2028", "\\u2029",
     "\\u202f", "\\u205f", "\\u3000", "\\ufeff"}

Min(S) == CHOOSE x \in S : \A y \in S : x <= y
Max(S) == CHOOSE x \in S : \A y \in S : x >= y

estimateTokens(text) == (Len(text) + 3) \div 4

\* first index >= i of text that holds no terminator, or Len(text) + 1
RECURSIVE SkipTerminators(_, _)
SkipTerminators(text, i) ==
    IF i > Len(text) \/ text[i] \notin Terminators
    THEN i
    ELSE SkipTerminators(text, i + 1)

\* text.split(/[.!?]+/) from index i on, cur being the piece under way
RECURSIVE SplitFrom(_, _, _)
SplitFrom(text, i, cur) ==
    IF i > Len(text)
    THEN <<cur>>
    ELSE IF text[i] \in Terminators
         THEN <<cur>> \o SplitFrom(text, SkipTerminators(text, i), <<>>)
         ELSE SplitFrom(text, i + 1, Append(cur, text[i]))

splitSentences(text) == SplitFrom(text, 1, <<>>)

trim(text) ==
    LET keep == {i \in 1..Len(text) : text[i] \notin WhitespaceChars}
    IN  IF keep = {} THEN <<>> ELSE SubSeq(text, Min(keep), Max(keep))

\* Array.prototype.indexOf: zero-based position of the first equal element
indexOf(seq, x) ==
    IF \E i \in 1..Len(seq) : seq[i] = x
    THEN Min({i \in 1..Len(seq) : seq[i] = x}) - 1
    ELSE -1

----------------------------------------------------------------------------
(* Chunker *)

\* mutant: the buffer is never closed off, every sentence is appended
RECURSIVE ChunkLoop_neverCloses(_, _, _, _, _)
ChunkLoop_neverCloses(sentences, i, chunks, currentChunk, maxTokens) ==
    IF i > Len(sentences)
    THEN IF currentChunk # <<>>
         THEN Append(chunks, trim(currentChunk))
         ELSE chunks
    ELSE ChunkLoop_neverCloses(sentences, i + 1, chunks,
                               currentChunk \o sentences[i] \o <<".", " ">>, maxTokens)

RECURSIVE ChunkLoop(_, _, _, _, _)
ChunkLoop(sentences, i, chunks, currentChunk, maxTokens) ==
    IF i > Len(sentences)
    THEN IF currentChunk # <<>>
         THEN Append(chunks, trim(currentChunk))
         ELSE chunks
    ELSE IF estimateTokens(currentChunk \o sentences[i]) > maxTokens
         THEN ChunkLoop(sentences, i + 1, Append(chunks, trim(currentChunk)),
                        sentences[i], maxTokens)
         ELSE ChunkLoop(sentences, i + 1, chunks,
                        currentChunk \o sentences[i] \o <<".", " ">>, maxTokens)

\* values of the content argument that are not a non-empty string
EmptyText == <<>>
NullText == <<"null">>
UndefinedText == <<"undefined">>
EmptyContents == {EmptyText, NullText, UndefinedText}

\* mutant: splitIntoChunks has no guard
isFalsy_never(text) == FALSE

\* !text
isFalsy(text) == text \in EmptyContents

splitIntoChunks(text, maxTokens) ==
    IF isFalsy(text)
    THEN <<>>
    ELSE ChunkLoop(splitSentences(text), 1, <<>>, <<>>, maxTokens)

----------------------------------------------------------------------------
(* Embedder.  The embedding service is outside the program; it is taken to *)
(* be a deterministic function of the text it is sent, into Vectors.       *)

\* text.split(/\s+/) from index i on, cur being the word under way
RECURSIVE SkipWhitespace(_, _)
SkipWhitespace(text, i) ==
    IF i > Len(text) \/ text[i] \notin WhitespaceChars
    THEN i
    ELSE SkipWhitespace(text, i + 1)

RECURSIVE WordsFrom(_, _, _)
WordsFrom(text, i, cur) ==
    IF i > Len(text)
    THEN <<cur>>
    ELSE IF text[i] \in WhitespaceChars
         THEN <<cur>> \o WordsFrom(text, SkipWhitespace(text, i), <<>>)
         ELSE WordsFrom(text, i + 1, Append(cur, text[i]))

splitWords(text) == WordsFrom(text, 1, <<>>)

\* mutant: a word that does not fit is passed over and the loop goes on
RECURSIVE TruncateLoop_skips(_, _, _, _, _)
TruncateLoop_skips(words, i, truncatedText, currentTokens, maxTokens) ==
    IF i > Len(words)
    THEN truncatedText
    ELSE IF currentTokens + estimateTokens(words[i]) > maxTokens
         THEN TruncateLoop_skips(words, i + 1, truncatedText, currentTokens, maxTokens)
         ELSE TruncateLoop_skips(words, i + 1, truncatedText \o words[i] \o <<" ">>,
                                 currentTokens + estimateTokens(words[i]), maxTokens)

\* for (const word of words): the loop breaks at the first word over budget
RECURSIVE TruncateLoop(_, _, _, _, _)
TruncateLoop(words, i, truncatedText, currentTokens, maxTokens) ==
    IF i > Len(words)
    THEN truncatedText
    ELSE IF currentTokens + estimateTokens(words[i]) > maxTokens
         THEN truncatedText
         ELSE TruncateLoop(words, i + 1, truncatedText \o words[i] \o <<" ">>,
                           currentTokens + estimateTokens(words[i]), maxTokens)

\* the input generateEmbedding sends to the embedding service
embeddingInput(text, maxTokens) ==
    IF estimateTokens(text) > maxTokens
    THEN trim(TruncateLoop(splitWords(text), 1, <<>>, 0, maxTokens))
    ELSE text

embeddingService(text) ==
    IF text = <<>> THEN 4
    ELSE IF text[1] \in {"a", "F"} THEN 1
    ELSE IF text[1] \in {"c", "M"} THEN 2
    ELSE IF text[1] \in {"e"} THEN 3
    ELSE 4

EmbedMaxTokens == 8192   \* const maxTokens = 8192 of generateEmbedding

\* generateEmbedding when the service answers: the vector of the text sent
generateEmbedding(text) == embeddingService(embeddingInput(text, EmbedMaxTokens))

\* 1 - (embedding <=> queryVector), in tenths
similarity(embedding, queryVector) ==
    10 - (IF embedding >= queryVector THEN embedding - queryVector ELSE queryVector - embedding)

----------------------------------------------------------------------------
(* Content store: the SQL statements of storeMessage and the upsert *)

Row(id, channelName, threadTs, content, userName, userTitle, chunkIndex, metadata, embedding, createdAt) ==
    [id |-> id, channel_name |-> channelName, thread_ts |-> threadTs,
     content |-> content, user_name |-> userName, user_title |-> userTitle,
     chunk_index |-> chunkIndex, metadata |-> metadata,
     embedding |-> embedding, created_at |-> createdAt]

KeyOf(r) == <<r.channel_name, r.thread_ts, r.chunk_index>>
Keys(rows) == {KeyOf(r) : r \in rows}
RowsOfKey(rows, key) == {r \in rows : KeyOf(r) = key}
RowsOfThread(rows, channelName, threadTs) ==
    {r \in rows : r.channel_name = channelName /\ r.thread_ts = threadTs}

\* messageTs ? new Date(parseFloat(messageTs) * 1000) : new Date()
messageDate(messageTs) == IF messageTs = NoTs THEN Now ELSE messageTs

\* SELECT id FROM messages WHERE channel_name = $1 AND thread_ts = $2 AND chunk_index = $3
existingMessage(rows, channelName, threadTs, chunkIndex) ==
    {r.id : r \in RowsOfKey(rows, <<channelName, threadTs, chunkIndex>>)}

\* mutant: an UPDATE whose SET list leaves created_at out
updateMessage_keepsCreatedAt(rows, channelName, threadTs, chunkIndex, content, userName, userTitle, embedding, metadata, createdAt) ==
    {IF KeyOf(r) = <<channelName, threadTs, chunkIndex>>
     THEN [r EXCEPT !.content = content, !.user_name = userName,
                    !.user_title = userTitle, !.embedding = embedding,
                    !.metadata = metadata]
     ELSE r : r \in rows}

\* mutant: an UPDATE whose WHERE clause leaves chunk_index out
updateMessage_wholeThread(rows, channelName, threadTs, chunkIndex, content, userName, userTitle, embedding, metadata, createdAt) ==
    {IF r.channel_name = channelName /\ r.thread_ts = threadTs
     THEN [r EXCEPT !.content = content, !.user_name = userName,
                    !.user_title = userTitle, !.embedding = embedding,
                    !.metadata = metadata, !.created_at = createdAt]
     ELSE r : r \in rows}

\* UPDATE messages SET ... WHERE channel_name = $1 AND thread_ts = $2 AND chunk_index = $3
updateMessage(rows, channelName, threadTs, chunkIndex, content, userName, userTitle, embedding, metadata, createdAt) ==
    {IF KeyOf(r) = <<channelName, threadTs, chunkIndex>>
     THEN [r EXCEPT !.content = content, !.user_name = userName,
                    !.user_title = userTitle, !.embedding = embedding,
                    !.metadata = metadata, !.created_at = createdAt]
     ELSE r : r \in rows}

\* INSERT INTO messages (...) VALUES (...) with id taken from the SERIAL counter
insertMessage(rows, id, channelName, threadTs, content, userName, userTitle, chunkIndex, metadata, embedding, createdAt) ==
    rows \cup {Row(id, channelName, threadTs, content, userName, userTitle,
                   chunkIndex, metadata, embedding, createdAt)}

\* mutant: the lookup's answer is ignored and every call inserts
takesUpdate_never(existing) == FALSE

\* The branch of storeMessage: does the SELECT's answer lead to the UPDATE?
takesUpdate(existing) == existing # {}

\* storeMessage when no other call takes a step between its awaits, on
\* db = [rows, nextId]; gives the new db and the ids result.rows[0].id can be
\* (RETURNING fixes no order among the rows of one key)
storeMessage(db, channelName, threadTs, content, userName, userTitle, chunkIndex, metadata, messageTs) ==
    LET embedding == generateEmbedding(content)
        existing == existingMessage(db.rows, channelName, threadTs, chunkIndex)
    IN  IF takesUpdate(existing)
        THEN [rows |-> updateMessage(db.rows, channelName, threadTs, chunkIndex,
                                     content, userName, userTitle, embedding,
                                     metadata, messageDate(messageTs)),
              nextId |-> db.nextId,
              ids |-> existing]
        ELSE [rows |-> insertMessage(db.rows, db.nextId, channelName, threadTs,
                                     content, userName, userTitle, chunkIndex,
                                     metadata, embedding, messageDate(messageTs)),
              nextId |-> db.nextId + 1,
              ids |-> {db.nextId}]

\* the chunk_index chunkAndStoreMessage passes for the chunk at position i (1-based)
chunkIndexOf(chunks, i) == indexOf(chunks, chunks[i])

\* the loop of chunkAndStoreMessage from position i on
RECURSIVE StoreChunksFrom(_, _, _, _, _, _, _, _)
StoreChunksFrom(db, chunks, i, channelName, threadTs, userName, userTitle, messageTs) ==
    IF i > Len(chunks)
    THEN db
    ELSE StoreChunksFrom(
             storeMessage(db, channelName, threadTs, chunks[i], userName,
                          userTitle, chunkIndexOf(chunks, i),
                          [total_chunks |-> Len(chunks)], messageTs),
             chunks, i + 1, channelName, threadTs, userName, userTitle,
             messageTs)

\* mutant: the rows of the thread beyond the new chunks are deleted
chunkAndStoreMessage_reaps(db, channelName, threadTs, content, userName, userTitle, messageTs, maxTokens) ==
    LET chunks == splitIntoChunks(content, maxTokens)
        res == StoreChunksFrom(db, chunks, 1, channelName, threadTs, userName, userTitle, messageTs)
    IN  [res EXCEPT !.rows = {r \in @ : ~(r.channel_name = channelName /\ r.thread_ts = threadTs /\ r.chunk_index >= Len(chunks))}]

chunkAndStoreMessage(db, channelName, threadTs, content, userName, userTitle, messageTs, maxTokens) ==
    StoreChunksFrom(db, splitIntoChunks(content, maxTokens), 1, channelName,
                    threadTs, userName, userTitle, messageTs)

\* the loop of chunkAndStoreMessage from position i on, left when
\* generateEmbedding throws for the chunk at position failAt
RECURSIVE StoreChunksUpTo(_, _, _, _, _, _, _, _, _)
StoreChunksUpTo(db, chunks, i, failAt, channelName, threadTs, userName, userTitle, messageTs) ==
    IF i > Len(chunks) \/ i >= failAt
    THEN db
    ELSE StoreChunksUpTo(
             storeMessage(db, channelName, threadTs, chunks[i], userName, userTitle, chunkIndexOf(chunks, i), [total_chunks |-> Len(chunks)], messageTs),
             chunks, i + 1, failAt, channelName, threadTs, userName, userTitle, messageTs)

\* mutant: the writes of a failed call are rolled back
chunkAndStoreMessageFailing_rollsBack(db, channelName, threadTs, content, userName, userTitle, messageTs, maxTokens, failAt) == db

\* chunkAndStoreMessage when the embedding request of the chunk at position
\* failAt throws: the table the call leaves behind
chunkAndStoreMessageFailing(db, channelName, threadTs, content, userName, userTitle, messageTs, maxTokens, failAt) ==
    StoreChunksUpTo(db, splitIntoChunks(content, maxTokens), 1, failAt, channelName, threadTs, userName, userTitle, messageTs)

\* mutant: the DELETE has no WHERE clause
deleteChannelMessages_all(rows, channelName) == [rows |-> {}, rowCount |-> Cardinality(rows)]

\* DELETE FROM messages WHERE channel_name = $1 RETURNING id
deleteChannelMessages(rows, channelName) ==
    [rows |-> {r \in rows : r.channel_name # channelName},
     rowCount |-> Cardinality({r \in rows : r.channel_name = channelName})]

----------------------------------------------------------------------------
(* Webhook events and the handler's record *)

Bot == "bot"           \* process.env.SLACK_BOT_ID
NoUser == "none"       \* an event without a user field
NoThreadTs == ""       \* an event without a thread_ts field

\* new Date(parseFloat(ts) * 1000) of a Slack ts
parseTs(ts) == IF ts = "100.1" THEN 1 ELSE 2

LeaveTypes == {"group_left", "member_left_channel", "channel_left"}
JoinTypes == {"member_joined_channel", "group_joined"}
EventTypes == LeaveTypes \cup JoinTypes \cup {"app_mention", "message"}

\* the urls extractLinks finds: g a Google Drive file, w a web page
DriveLink == "g"
WebLink == "w"
Links == {DriveLink, WebLink}
LinkLists == {<<>>, <<DriveLink>>, <<DriveLink, WebLink>>}

\* what one call of processLink does: it returns, it throws an error whose
\* message includes 'Google Drive', or it throws another error
LinkOutcomes == {"ok", "Google Drive", "error"}
PossibleOutcomes == {o \in [Links -> LinkOutcomes] : o[WebLink] # "Google Drive"}

\* mutant: ingest.js requires deleteChannelMessages from db.js
IngestImports_withDelete == {"extractLinks", "processLink", "processImage", "processPDF", "storeMessage", "searchSimilarMessages", "chunkAndStoreMessage", "getRelevantContext", "generateEmbedding", "deleteChannelMessages"}

\* the names ingest.js binds by its require lines, and what the modules export
IngestImports == {"extractLinks", "processLink", "processImage", "processPDF", "storeMessage", "searchSimilarMessages", "chunkAndStoreMessage", "getRelevantContext", "generateEmbedding"}
DbExports == {"initializeDatabase", "storeMessage", "chunkAndStoreMessage", "searchSimilarMessages", "getRelevantContext", "deleteChannelMessages"}
LinkProcessorExports == {"extractLinks", "processLink"}

\* a name the handler can call: bound in ingest.js to a function
Callable(name) == name \in IngestImports /\ name \in (DbExports \cup LinkProcessorExports)

\* the document processMessageContent returns: null, or a string made of blocks
NullDocument == [null |-> TRUE, blocks |-> <<>>]

\* req.body.authorizations is missing or empty
NoAuthorizations == "no authorizations"

NoEvent == [type |-> "none", channel |-> "", user |-> NoUser, ts |-> "", thread_ts |-> NoThreadTs, text |-> <<>>, links |-> <<>>, authorizations |-> NoAuthorizations]

\* a request whose body holds no event
MalformedEvent == [NoEvent EXCEPT !.type = "undefined"]

AllLinksOk == [l \in Links |-> "ok"]

\* a request that has not arrived: the record of what its handler did
IdleHandler == [pc |-> "idle", event |-> NoEvent, faults |-> {}, summarised |-> FALSE, thread |-> <<>>, storable |-> NullDocument, outcome |-> AllLinksOk, attempted |-> {}, posted |-> <<>>, context |-> <<>>, deleted |-> FALSE, stored |-> FALSE, processedCount |-> 0, page |-> 0, cursor |-> FALSE, previous |-> {}]

----------------------------------------------------------------------------
(* Store specification: calls of the store, run one after another or     *)
(* overlapping.                                                           *)

Db == [rows |-> messages, nextId |-> nextId]

NoOp == [op |-> "none"]

\* storeMessage's default metadata = {}
EmptyMetadata == [total_chunks |-> 0]

\* the tasks that may run side by side (a request and the calls it makes are
\* one task), and a task that is making no call
Tasks == {"A", "B"}
IdleTask == [pc |-> "idle"]
NoTasks == [p \in Tasks |-> IdleTask]
NoRequests == [p \in Tasks |-> IdleHandler]

Init ==
    /\ messages = {}
    /\ nextId = 1
    /\ last = NoOp
    /\ calls = 0
    /\ tasks = NoTasks
    /\ handler = NoRequests

(* A call of chunkAndStoreMessage one await at a time: the embedding request, *)
(* the SELECT and the UPDATE or INSERT of each chunk are steps of their own,  *)
(* and the steps of calls in flight interleave.                               *)

\* the thread the concurrent calls write to
RacedThread == "100.1"

CurrentChunk(task) == task.chunks[task.i]

\* mutant: the chunks are given their indices in reverse order
CurrentIndex_reversed(task) ==
    IF task.op = "storeMessage" THEN task.chunkIndex
    ELSE chunkIndexOf(task.chunks, Len(task.chunks) + 1 - task.i)

\* the chunkIndex storeMessage is called with: chunks.indexOf(chunk) in the
\* loop of chunkAndStoreMessage, the caller's argument in a direct call
CurrentIndex(task) ==
    IF task.op = "storeMessage" THEN task.chunkIndex
    ELSE chunkIndexOf(task.chunks, task.i)

\* what is remembered of a call whose beginning is compared neither with a
\* deletion nor with the end of another call
Untracked == [channel |-> "", deletions |-> 0, after |-> {}]

\* the call has returned or thrown: its arguments and locals are gone
Ended(task, outcome) == [pc |-> outcome, began |-> task.began]

\* the task state after the chunk at position task.i has been written
AfterChunk(task) ==
    IF task.i < Len(task.chunks)
    THEN [task EXCEPT !.pc = "embed", !.i = task.i + 1, !.existing = {}]
    ELSE Ended(task, "done")

\* chunkAndStoreMessage is called: the text is split, the loop is entered
CallEntry(channelName, threadTs, content, userName, messageTs) ==
    LET chunks == splitIntoChunks(content, ChunkTokenBudget)
    IN  IF chunks = <<>>
        THEN [pc |-> "done", began |-> Untracked]
        ELSE [pc |-> "embed", op |-> "chunkAndStoreMessage",
              channel |-> channelName, thread |-> threadTs,
              user |-> userName, ts |-> messageTs,
              chunks |-> chunks, i |-> 1, chunkIndex |-> 0,
              metadata |-> [total_chunks |-> Len(chunks)],
              existing |-> {}, written |-> 0, began |-> Untracked]

\* storeMessage is called by itself: one content under the given index
StoreEntry(channelName, threadTs, content, userName, chunkIndex, metadata, messageTs) ==
    [pc |-> "embed", op |-> "storeMessage",
     channel |-> channelName, thread |-> threadTs,
     user |-> userName, ts |-> messageTs,
     chunks |-> <<content>>, i |-> 1, chunkIndex |-> chunkIndex,
     metadata |-> metadata,
     existing |-> {}, written |-> 0, began |-> Untracked]

StartCall(p, channelName, content, userName, messageTs) ==
    /\ tasks[p].pc = "idle"
    /\ tasks' = [tasks EXCEPT ![p] =
                   [CallEntry(channelName, RacedThread, content, userName, messageTs)
                       EXCEPT !.began = [channel |-> channelName, deletions |-> calls, after |-> {}]]]
    /\ UNCHANGED <<messages, nextId, last, calls, handler>>

\* a call is in flight as task p
InFlight(p) == tasks[p].pc \in {"embed", "select", "write"}

\* the task a call that begins runs as: the first that holds no call in
\* flight, a task whose call has ended being taken again
FreeTask(p) == ~InFlight(p) /\ (InFlight("A") \/ p = "A")

\* chunkAndStoreMessage is called with a text that has chunks and runs one
\* await at a time, whatever other calls are in flight
OverlappingCall(p, channelName, threadTs, content, userName, messageTs) ==
    /\ calls < MaxCalls
    /\ FreeTask(p)
    /\ splitIntoChunks(content, ChunkTokenBudget) # <<>>
    /\ tasks' = [tasks EXCEPT ![p] = CallEntry(channelName, threadTs, content, userName, messageTs)]
    /\ calls' = calls + 1
    /\ UNCHANGED <<messages, nextId, last, handler>>

\* storeMessage is called by itself and runs one await at a time
OverlappingStore(p, channelName, threadTs, content, userName, chunkIndex, metadata, messageTs) ==
    /\ calls < MaxCalls
    /\ FreeTask(p)
    /\ tasks' = [tasks EXCEPT ![p] = StoreEntry(channelName, threadTs, content, userName, chunkIndex, metadata, messageTs)]
    /\ calls' = calls + 1
    /\ UNCHANGED <<messages, nextId, last, handler>>

\* await generateEmbedding(content): the service answers
EmbedOk(p) ==
    /\ tasks[p].pc = "embed"
    /\ tasks' = [tasks EXCEPT ![p].pc = "select"]
    /\ UNCHANGED <<messages, nextId, last, calls, handler>>

\* await generateEmbedding(content): the service fails, storeMessage rethrows
\* and the call ends
EmbedFails(p) ==
    /\ tasks[p].pc = "embed"
    /\ tasks' = [tasks EXCEPT ![p] = Ended(tasks[p], "failed")]
    /\ UNCHANGED <<messages, nextId, last, calls, handler>>

\* await pool.query(SELECT id ...)
SelectExisting(p) ==
    /\ tasks[p].pc = "select"
    /\ tasks' = [tasks EXCEPT ![p].pc = "write",
                              ![p].existing =
                                  existingMessage(messages, tasks[p].channel,
                                                  tasks[p].thread,
                                                  CurrentIndex(tasks[p]))]
    /\ UNCHANGED <<messages, nextId, last, calls, handler>>

\* await pool.query(UPDATE ... RETURNING id); with no row left to update,
\* result.rows[0].id throws and the call ends
WriteUpdate(p) ==
    LET task == tasks[p] IN
    /\ task.pc = "write"
    /\ takesUpdate(task.existing)
    /\ messages' = updateMessage(messages, task.channel, task.thread,
                                 CurrentIndex(task), CurrentChunk(task),
                                 task.user, TitleOf(task.user),
                                 generateEmbedding(CurrentChunk(task)),
                                 task.metadata,
                                 messageDate(task.ts))
    /\ tasks' = [tasks EXCEPT ![p] =
                   IF existingMessage(messages, task.channel, task.thread,
                                      CurrentIndex(task)) = {}
                   THEN Ended(task, "failed")
                   ELSE AfterChunk([task EXCEPT !.written = task.written + 1])]
    /\ UNCHANGED <<nextId, last, calls, handler>>

\* await pool.query(INSERT ... RETURNING id)
WriteInsert(p) ==
    LET task == tasks[p] IN
    /\ task.pc = "write"
    /\ ~takesUpdate(task.existing)
    /\ messages' = insertMessage(messages, nextId, task.channel, task.thread,
                                 CurrentChunk(task), task.user,
                                 TitleOf(task.user), CurrentIndex(task),
                                 task.metadata,
                                 generateEmbedding(CurrentChunk(task)),
                                 messageDate(task.ts))
    /\ nextId' = nextId + 1
    /\ tasks' = [tasks EXCEPT ![p] =
                   AfterChunk([task EXCEPT !.written = task.written + 1])]
    /\ UNCHANGED <<last, calls, handler>>

----------------------------------------------------------------------------
(* A call as one step: a call made while no other call is in flight, and   *)
(* during which no other call begins, or a call that awaits nothing (a     *)
(* text without chunks), at any moment.  The same calls, with the same     *)
(* arguments, are also taken one await at a time (OverlappingCall,         *)
(* OverlappingStore, CallStep), and then interleave in every way.          *)

\* no call is in flight
Quiet == \A p \in Tasks : ~InFlight(p)

ChunkAndStoreMessage(channelName, threadTs, content, userName, messageTs) ==
    /\ calls < MaxCalls
    /\ Quiet \/ splitIntoChunks(content, ChunkTokenBudget) = <<>>
    /\ LET db == chunkAndStoreMessage(Db, channelName, threadTs, content,
                                      userName, TitleOf(userName), messageTs,
                                      ChunkTokenBudget)
       IN  /\ messages' = db.rows
           /\ nextId' = db.nextId
    /\ last' = [op |-> "chunkAndStoreMessage",
                channel |-> channelName, thread |-> threadTs,
                content |-> content, user |-> userName, ts |-> messageTs,
                chunks |-> splitIntoChunks(content, ChunkTokenBudget),
                fresh |-> RowsOfThread(messages, channelName, threadTs) = {},
                again |-> /\ last.op = "chunkAndStoreMessage"
                          /\ last.channel = channelName
                          /\ last.thread = threadTs
                          /\ last.content = content
                          /\ last.user = userName
                          /\ last.ts = messageTs]
    /\ calls' = calls + 1
    /\ UNCHANGED <<tasks, handler>>

StoreMessage(channelName, threadTs, content, userName, chunkIndex, metadata, messageTs) ==
    /\ calls < MaxCalls
    /\ Quiet
    /\ LET db == storeMessage(Db, channelName, threadTs, content, userName,
                              TitleOf(userName), chunkIndex, metadata, messageTs)
       IN  /\ messages' = db.rows
           /\ nextId' = db.nextId
           /\ \E id \in db.ids :
               last' = [op |-> "storeMessage", channel |-> channelName,
                        thread |-> threadTs, content |-> content,
                        user |-> userName, chunk_index |-> chunkIndex,
                        metadata |-> metadata, ts |-> messageTs,
                        existing |-> existingMessage(messages, channelName,
                                                     threadTs, chunkIndex),
                        replaced |-> {r.content : r \in RowsOfKey(messages,
                                        <<channelName, threadTs, chunkIndex>>)},
                        id |-> id]
    /\ calls' = calls + 1
    /\ UNCHANGED <<tasks, handler>>

\* a chunkAndStoreMessage call that throws at the chunk at position failAt
ChunkAndStoreMessageFails(channelName, threadTs, content, userName, messageTs, failAt) ==
    /\ calls < MaxCalls
    /\ Quiet
    /\ failAt \in 1..Len(splitIntoChunks(content, ChunkTokenBudget))
    /\ LET db == chunkAndStoreMessageFailing(Db, channelName, threadTs, content, userName, TitleOf(userName), messageTs, ChunkTokenBudget, failAt)
       IN  /\ messages' = db.rows
           /\ nextId' = db.nextId
    /\ last' = [op |-> "chunkAndStoreMessage threw", channel |-> channelName, thread |-> threadTs, content |-> content, user |-> userName, ts |-> messageTs, chunks |-> splitIntoChunks(content, ChunkTokenBudget), failAt |-> failAt]
    /\ calls' = calls + 1
    /\ UNCHANGED <<tasks, handler>>

\* one DELETE statement, at any moment, calls in flight or not
DeleteChannelMessages(channelName) ==
    /\ LET res == deleteChannelMessages(messages, channelName)
       IN  /\ messages' = res.rows
           /\ last' = [op |-> "deleteChannelMessages", channel |-> channelName,
                       rowCount |-> res.rowCount]
    /\ UNCHANGED <<nextId, calls, tasks, handler>>

\* the steps of the calls in flight
CallStep ==
    \/ \E p \in Tasks : EmbedOk(p)
    \/ \E p \in Tasks : EmbedFails(p)
    \/ \E p \in Tasks : SelectExisting(p)
    \/ \E p \in Tasks : WriteUpdate(p)
    \/ \E p \in Tasks : WriteInsert(p)

Next ==
    \/ \E c \in Channels, t \in Threads, d \in Documents, s \in Senders :
         ChunkAndStoreMessage(c, t, d, s.user, s.ts)
    \/ \E d \in DirectContents, u \in Users, ts \in {NoTs, 2} :
         StoreMessage("C1", "100.1", d, u, 0, EmptyMetadata, ts)
    \/ \E c \in Channels : DeleteChannelMessages(c)
    \/ \E d \in EmptyContents : ChunkAndStoreMessage("C1", "100.1", d, "alice", 1)
    \/ \E d \in FailingDocuments, failAt \in 1..MaxChunks :
         ChunkAndStoreMessageFails("C1", "100.1", d, "bob", 2, failAt)
    \/ \E p \in Tasks, c \in Channels, t \in Threads, d \in Documents, s \in Senders :
         OverlappingCall(p, c, t, d, s.user, s.ts)
    \/ \E p \in Tasks, d \in FailingDocuments : OverlappingCall(p, "C1", "100.1", d, "bob", 2)
    \/ \E p \in Tasks, d \in DirectContents, u \in Users, ts \in {NoTs, 2} :
         OverlappingStore(p, "C1", "100.1", d, u, 0, EmptyMetadata, ts)
    \/ CallStep

Spec == Init /\ [][Next]_vars

\* a step that is a whole storeMessage or chunkAndStoreMessage call: last'
\* tells which call and what it returned
CallAlone == calls' = calls + 1 /\ tasks' = tasks

\* a step that is one statement on the table by itself, a deletion or a
\* query: last' tells which
StatementAlone == calls' = calls /\ tasks' = tasks

----------------------------------------------------------------------------
(* Similarity search *)

\* filters: '' and 0 are falsy, so they stand for a filter that is not given
NoFilters == [channel |-> "", user |-> "", minDate |-> 0, maxDate |-> 0]

\* the WHERE clause built from the filters
passesFilters(r, filters) ==
    /\ (filters.channel # "" => r.channel_name = filters.channel)
    /\ (filters.user # "" => r.user_name = filters.user)
    /\ (filters.minDate # 0 => r.created_at >= filters.minDate)
    /\ (filters.maxDate # 0 => r.created_at <= filters.maxDate)

\* mutant: the threshold admits a similarity equal to it
aboveThreshold_inclusive(r, queryVector, minSimilarity) == similarity(r.embedding, queryVector) >= minSimilarity

\* AND 1 - (embedding <=> $q) > minSimilarity
aboveThreshold(r, queryVector, minSimilarity) ==
    similarity(r.embedding, queryVector) > minSimilarity

\* the rows the CTE ranks
eligibleRows(rows, queryVector, minSimilarity, filters) ==
    {r \in rows : passesFilters(r, filters) /\ aboveThreshold(r, queryVector, minSimilarity)}

\* mutant: the window is partitioned by channel and thread
partitionKey_perChannel(r) == <<r.channel_name, r.thread_ts>>

\* PARTITION BY thread_ts
partitionKey(r) == r.thread_ts

\* the columns the query selects (created_at and id are not among them)
selectedColumns(r, queryVector) ==
    [channel_name |-> r.channel_name, thread_ts |-> r.thread_ts,
     content |-> r.content, user_name |-> r.user_name,
     user_title |-> r.user_title, chunk_index |-> r.chunk_index,
     metadata |-> r.metadata,
     similarity |-> similarity(r.embedding, queryVector), rank |-> 1]

\* the sets of rows ROW_NUMBER() can give rank 1: for each partition one row
\* of the highest similarity in it (which one of several equal, the engine picks)
rankOneSets(eligible, queryVector) ==
    LET parts == {partitionKey(r) : r \in eligible}
        best(k) == {r \in eligible :
                      /\ partitionKey(r) = k
                      /\ \A o \in eligible : partitionKey(o) = k =>
                            similarity(o.embedding, queryVector)
                              <= similarity(r.embedding, queryVector)}
    IN  {{f[k] : k \in parts} : f \in {g \in [parts -> eligible] : \A k \in parts : g[k] \in best(k)}}

\* the orders ORDER BY similarity DESC can give to a set of rows
orderedBySimilarity(top, queryVector) ==
    LET n == Cardinality(top)
    IN  {o \in [1..n -> top] :
           /\ \A i, j \in 1..n : i # j => o[i] # o[j]
           /\ \A i, j \in 1..n : i < j =>
                 similarity(o[i].embedding, queryVector)
                   >= similarity(o[j].embedding, queryVector)}

\* LIMIT $n
takeLimit(seq, limit) == SubSeq(seq, 1, IF Len(seq) < limit THEN Len(seq) ELSE limit)

\* every answer searchSimilarMessages can give, the embedding service having
\* answered queryVector for the query text
searchSimilarMessages(rows, queryVector, limit, minSimilarity, filters) ==
    LET eligible == eligibleRows(rows, queryVector, minSimilarity, filters)
    IN  {[i \in 1..Len(takeLimit(o, limit)) |-> selectedColumns(o[i], queryVector)] :
            o \in UNION {orderedBySimilarity(top, queryVector) :
                            top \in rankOneSets(eligible, queryVector)}}

----------------------------------------------------------------------------
(* Context assembly *)

DefaultMaxTokens == 4000   \* getRelevantContext(query, maxTokens = 4000)
ContextLimit == 10          \* searchSimilarMessages(query, 10, 0.7)
ContextMinSimilarity == 7   \* 0.7, in tenths
Undefined == -1             \* a property the object does not have

Chars(str) ==
    CASE str = "alice" -> <<"a", "l", "i", "c", "e">>
      [] str = "bob" -> <<"b", "o", "b">>
      [] str = "eng" -> <<"e", "n", "g">>
      [] str = "No title" -> <<"N", "o", " ", "t", "i", "t", "l", "e">>
      [] str = "C1" -> <<"C", "1">>
      [] str = "C2" -> <<"C", "2">>
      [] str = "100.1" -> <<"1", "0", "0", ".", "1">>
      [] str = "200.2" -> <<"2", "0", "0", ".", "2">>

\* String(n) for the small numbers of the model
NumberChars(n) ==
    CASE n = 0 -> <<"0">> [] n = 1 -> <<"1">> [] n = 2 -> <<"2">> [] n = 3 -> <<"3">>
      [] OTHER -> <<"9">>

\* str.replace('.', ''): the first '.' is removed
removeFirstDot(text) ==
    LET dots == {i \in 1..Len(text) : text[i] = "."}
    IN  IF dots = {} THEN text
        ELSE SubSeq(text, 1, Min(dots) - 1) \o SubSeq(text, Min(dots) + 1, Len(text))

\* process.env.SLACK_BASE_URI
SlackBaseUri == <<"h", "t", "t", "p", "s", ":", "/", "/", "s", ".", "c", "o", "m">>

\* message.created_at of a row searchSimilarMessages returned
createdAtOf(message) ==
    IF "created_at" \in DOMAIN message THEN message.created_at ELSE Undefined

\* new Date(b.created_at) - new Date(a.created_at); NaN counts as 0 in a sort
compareRecency(a, b) ==
    IF createdAtOf(a) = Undefined \/ createdAtOf(b) = Undefined
    THEN 0
    ELSE createdAtOf(b) - createdAtOf(a)

\* Array.prototype.sort (stable) with compareRecency, as an insertion sort
RECURSIVE InsertByRecency(_, _)
InsertByRecency(sorted, x) ==
    IF sorted = <<>> THEN <<x>>
    ELSE IF compareRecency(sorted[Len(sorted)], x) <= 0
         THEN Append(sorted, x)
         ELSE Append(InsertByRecency(SubSeq(sorted, 1, Len(sorted) - 1), x), sorted[Len(sorted)])

RECURSIVE SortFrom(_, _, _)
SortFrom(seq, i, sorted) ==
    IF i > Len(seq) THEN sorted ELSE SortFrom(seq, i + 1, InsertByRecency(sorted, seq[i]))

sortByRecency(seq) == SortFrom(seq, 1, <<>>)

\* Math.floor((now - messageDate) / day), printed
daysSinceChars(message) ==
    IF createdAtOf(message) = Undefined
    THEN <<"N", "a", "N">>
    ELSE NumberChars(Now - createdAtOf(message))

messageLink(message) ==
    SlackBaseUri \o <<"/">> \o Chars(message.channel_name) \o <<"/", "p">> \o removeFirstDot(Chars(message.thread_ts))

\* the text appended to the context for one message
contextEntry(message, messageContent) ==
    <<"M", "e", "s", "s", "a", "g", "e", " ", "f", "r", "o", "m", " ">>
    \o Chars(message.user_name) \o <<" ", "(">> \o Chars(message.user_title) \o <<")", " ">>
    \o daysSinceChars(message) \o <<" ", "d", "a", "y", "s", " ", "a", "g", "o", ":", " ">>
    \o messageContent \o <<"\n", "L", "i", "n", "k", ":", " ">>
    \o messageLink(message) \o <<"\n", "\n">>

\* what the budget test of the loop counts for a message
countedTokens(message) == estimateTokens(message.content)

\* mutant: a message that does not fit is passed over and the loop goes on
RECURSIVE ContextLoop_skips(_, _, _, _, _, _)
ContextLoop_skips(similarMessages, i, context, included, currentTokens, maxTokens) ==
    IF i > Len(similarMessages)
    THEN [context |-> context, included |-> included]
    ELSE IF currentTokens + countedTokens(similarMessages[i]) > maxTokens
         THEN ContextLoop_skips(similarMessages, i + 1, context, included, currentTokens, maxTokens)
         ELSE ContextLoop_skips(similarMessages, i + 1,
                                context \o contextEntry(similarMessages[i], similarMessages[i].content),
                                Append(included, similarMessages[i]),
                                currentTokens + countedTokens(similarMessages[i]), maxTokens)

\* the loop of getRelevantContext from position i on
RECURSIVE ContextLoop(_, _, _, _, _, _)
ContextLoop(similarMessages, i, context, included, currentTokens, maxTokens) ==
    IF i > Len(similarMessages)
    THEN [context |-> context, included |-> included]
    ELSE IF currentTokens + countedTokens(similarMessages[i]) > maxTokens
         THEN [context |-> context, included |-> included]
         ELSE ContextLoop(similarMessages, i + 1,
                          context \o contextEntry(similarMessages[i], similarMessages[i].content),
                          Append(included, similarMessages[i]),
                          currentTokens + countedTokens(similarMessages[i]), maxTokens)

\* getRelevantContext once searchSimilarMessages(query, 10, 0.7) has answered
\* similarMessages: the string returned and the messages that went into it
getRelevantContext(similarMessages, maxTokens) ==
    ContextLoop(sortByRecency(similarMessages), 1, <<>>, <<>>, 0, maxTokens)

----------------------------------------------------------------------------
(* Search specification: documents are ingested by calls that run one     *)
(* after another or overlap, and the table is queried at any moment, calls  *)
(* in flight or not.  A query leaves the table as it is, so whatever can    *)
(* follow a query can follow the state before it: a run ends with its       *)
(* query.                                                                   *)

MaxIngests == 2        \* chunkAndStoreMessage calls per run of the search specification

\* the documents ingested before a search: one of one chunk, one of two
SearchDocuments == {Doc1, DocLong}

Answered == last.op \in {"searchSimilarMessages", "getRelevantContext"}

SearchFilters ==
    {NoFilters,
     [NoFilters EXCEPT !.channel = "C1"],
     [NoFilters EXCEPT !.user = "alice"],
     [NoFilters EXCEPT !.minDate = 2],
     [NoFilters EXCEPT !.maxDate = 1],
     [channel |-> "C2", user |-> "bob", minDate |-> 1, maxDate |-> 2]}

Ingest(channelName, threadTs, content, userName, messageTs) ==
    /\ ~Answered
    /\ calls < MaxIngests
    /\ Quiet
    /\ LET db == chunkAndStoreMessage(Db, channelName, threadTs, content, userName, TitleOf(userName), messageTs, ChunkTokenBudget)
       IN  /\ messages' = db.rows
           /\ nextId' = db.nextId
    /\ last' = [op |-> "chunkAndStoreMessage"]
    /\ calls' = calls + 1
    /\ UNCHANGED <<tasks, handler>>

SearchSimilarMessages(queryVector, limit, minSimilarity, filters) ==
    /\ ~Answered
    /\ \E result \in searchSimilarMessages(messages, queryVector, limit, minSimilarity, filters) :
         last' = [op |-> "searchSimilarMessages", query |-> queryVector,
                  limit |-> limit, minSimilarity |-> minSimilarity,
                  filters |-> filters, result |-> result]
    /\ UNCHANGED <<messages, nextId, calls, tasks, handler>>

GetRelevantContext(queryVector, maxTokens) ==
    /\ ~Answered
    /\ \E similarMessages \in searchSimilarMessages(messages, queryVector, ContextLimit, ContextMinSimilarity, NoFilters) :
         LET res == getRelevantContext(similarMessages, maxTokens)
         IN  last' = [op |-> "getRelevantContext", query |-> queryVector,
                      maxTokens |-> maxTokens,
                      similarMessages |-> similarMessages,
                      included |-> res.included, context |-> res.context]
    /\ UNCHANGED <<messages, nextId, calls, tasks, handler>>

\* a call that overlaps others begins, or a call in flight takes a step
IngestOverlapping(p, channelName, threadTs, content, userName, messageTs) ==
    /\ ~Answered
    /\ calls < MaxIngests
    /\ OverlappingCall(p, channelName, threadTs, content, userName, messageTs)

IngestStep ==
    /\ ~Answered
    /\ CallStep

NextSearch ==
    \/ \E c \in Channels, t \in Threads, d \in SearchDocuments, s \in Senders :
         Ingest(c, t, d, s.user, s.ts)
    \/ \E p \in Tasks, c \in Channels, t \in Threads, d \in SearchDocuments, s \in Senders :
         IngestOverlapping(p, c, t, d, s.user, s.ts)
    \/ IngestStep
    \/ \E q \in Vectors, limit \in {1, 10}, m \in {0, 7}, f \in SearchFilters :
         SearchSimilarMessages(q, limit, m, f)
    \/ \E q \in Vectors, maxTokens \in {1, 2, 3} :
         GetRelevantContext(q, maxTokens)

SpecSearch == Init /\ [][NextSearch]_vars

----------------------------------------------------------------------------
(* Claims settled under SpecSearch *)

\* the table rows a returned message was read from
TableRowsOf(message) ==
    {r \in messages : /\ KeyOf(r) = <<message.channel_name, message.thread_ts, message.chunk_index>>
                      /\ r.content = message.content}

\* C4: in the context getRelevantContext returns, a chunk that comes before
\* another was created at the same time or later.
C4_RecencyOrder ==
    last.op = "getRelevantContext" =>
        \A i, j \in 1..Len(last.included) : i < j =>
            \A a \in TableRowsOf(last.included[i]), b \in TableRowsOf(last.included[j]) :
                a.created_at >= b.created_at

\* C5: the estimated token count of the whole string getRelevantContext
\* returns, sender/age prefix and link line included, is at most maxTokens.
C5_TokenBudget ==
    last.op = "getRelevantContext" => estimateTokens(last.context) <= last.maxTokens

\* C10: the answer of searchSimilarMessages holds at most one row per
\* thread_ts, and each row is an eligible chunk of the highest similarity
\* among the eligible chunks of its thread_ts.
C10_PerThreadCollapse ==
    last.op = "searchSimilarMessages" =>
        LET res == last.result
            eligible == eligibleRows(messages, last.query, last.minSimilarity, last.filters)
        IN  /\ \A i, j \in 1..Len(res) : i # j => res[i].thread_ts # res[j].thread_ts
            /\ \A i \in 1..Len(res) :
                  \E r \in eligible :
                    /\ r \in TableRowsOf(res[i])
                    /\ res[i].similarity = similarity(r.embedding, last.query)
                    /\ \A o \in eligible : o.thread_ts = r.thread_ts =>
                          similarity(o.embedding, last.query) <= res[i].similarity

C10_Witness ==
    /\ last.op = "searchSimilarMessages"
    /\ Len(last.result) = 1
    /\ LET eligible == eligibleRows(messages, last.query, last.minSimilarity, last.filters)
       IN  /\ \E a, b \in eligible :
                 /\ a.thread_ts = b.thread_ts
                 /\ a.channel_name # b.channel_name
                 /\ similarity(a.embedding, last.query) > similarity(b.embedding, last.query)
           /\ \E a, b \in eligible :
                 /\ a.thread_ts = b.thread_ts
                 /\ a.channel_name = b.channel_name
                 /\ a.chunk_index # b.chunk_index

\* C11 (Similarity threshold): every row searchSimilarMessages returns has a
\* similarity strictly above minSimilarity, as reported in the row and as
\* computed from the table row it was read from; a row whose similarity
\* equals minSimilarity is not returned.
C11_StrictThreshold ==
    last.op = "searchSimilarMessages" =>
        \A i \in 1..Len(last.result) :
            /\ last.result[i].similarity > last.minSimilarity
            /\ \A r \in TableRowsOf(last.result[i]) :
                  similarity(r.embedding, last.query) = last.result[i].similarity

\* a search that returned a row of one thread while the best row of another
\* thread, passing the filters, sat exactly on the threshold and was left out
C11_Witness ==
    /\ last.op = "searchSimilarMessages"
    /\ last.minSimilarity = ContextMinSimilarity
    /\ last.limit = ContextLimit
    /\ Len(last.result) > 0
    /\ \E r \in messages :
          /\ passesFilters(r, last.filters)
          /\ similarity(r.embedding, last.query) = last.minSimilarity
          /\ \A o \in messages : (o.thread_ts = r.thread_ts /\ passesFilters(o, last.filters)) =>
                similarity(o.embedding, last.query) <= last.minSimilarity
          /\ \A i \in 1..Len(last.result) : last.result[i].thread_ts # r.thread_ts

\* the summed content estimates of the first k messages
RECURSIVE contentTokens(_, _)
contentTokens(candidates, k) ==
    IF k = 0 THEN 0 ELSE contentTokens(candidates, k - 1) + estimateTokens(candidates[k].content)

\* C25 (Greedy prefix-fill): the messages getRelevantContext includes are
\* the longest prefix of its ordered candidates whose summed content
\* estimates stay within maxTokens, nothing after the first candidate that
\* does not fit; the string returned is empty exactly when that prefix is.
C25_GreedyPrefix ==
    last.op = "getRelevantContext" =>
        LET candidates == sortByRecency(last.similarMessages)
            k == Len(last.included)
        IN  /\ k <= Len(candidates)
            /\ last.included = SubSeq(candidates, 1, k)
            /\ contentTokens(candidates, k) <= last.maxTokens
            /\ k < Len(candidates) => contentTokens(candidates, k + 1) > last.maxTokens
            /\ (last.context = <<>>) <=> (k = 0)

\* a first candidate that does not fit, followed by one that would have
C25_Witness ==
    /\ last.op = "getRelevantContext"
    /\ last.context = <<>>
    /\ Len(last.similarMessages) >= 2
    /\ estimateTokens(sortByRecency(last.similarMessages)[1].content) > last.maxTokens
    /\ estimateTokens(sortByRecency(last.similarMessages)[2].content) <= last.maxTokens

----------------------------------------------------------------------------
(* Frame specification: writes, deletions and queries of the table in any *)
(* order, the writing calls run one after another or overlapping           *)

\* the query vectors of the frame specification: one near every row, one
\* above the threshold only for the rows of embedding 2 and more
FrameQueries == {1, 4}

QuerySimilarMessages(queryVector, limit, minSimilarity, filters) ==
    /\ \E result \in searchSimilarMessages(messages, queryVector, limit, minSimilarity, filters) :
         last' = [op |-> "searchSimilarMessages", query |-> queryVector, found |-> Len(result)]
    /\ UNCHANGED <<messages, nextId, calls, tasks, handler>>

QueryRelevantContext(queryVector, maxTokens) ==
    /\ \E similarMessages \in searchSimilarMessages(messages, queryVector, ContextLimit, ContextMinSimilarity, NoFilters) :
         last' = [op |-> "getRelevantContext", query |-> queryVector,
                  found |-> Len(getRelevantContext(similarMessages, maxTokens).included)]
    /\ UNCHANGED <<messages, nextId, calls, tasks, handler>>

NextStore ==
    \/ \E c \in Channels, t \in Threads, d \in Documents, s \in Senders :
         ChunkAndStoreMessage(c, t, d, s.user, s.ts)
    \/ \E d \in DirectContents, u \in Users, ts \in {NoTs, 2} :
         StoreMessage("C1", "100.1", d, u, 0, EmptyMetadata, ts)
    \/ \E c \in Channels : DeleteChannelMessages(c)
    \/ \E p \in Tasks, c \in Channels, t \in Threads, d \in Documents, s \in Senders :
         OverlappingCall(p, c, t, d, s.user, s.ts)
    \/ \E p \in Tasks, d \in DirectContents, u \in Users, ts \in {NoTs, 2} :
         OverlappingStore(p, "C1", "100.1", d, u, 0, EmptyMetadata, ts)
    \/ CallStep
    \/ \E q \in FrameQueries : QuerySimilarMessages(q, ContextLimit, ContextMinSimilarity, NoFilters)
    \/ \E q \in FrameQueries : QueryRelevantContext(q, DefaultMaxTokens)

SpecStore == Init /\ [][NextStore]_vars

\* the rows of the table before a step that are not in the table after it
removedRows == {r \in messages : \A n \in messages' : n.id # r.id}

\* C22 (Frame of the store): a step removes a row only when it is
\* deleteChannelMessages of the row's channel; storeMessage leaves every row
\* of another key as it was, and chunkAndStoreMessage every row of another
\* thread; searchSimilarMessages and getRelevantContext leave the table as
\* it was; and a step of a call that overlaps another removes no row but one
\* of the key it is writing.
C22_StoreFrame ==
    [][/\ \A r \in removedRows : StatementAlone /\ last'.op = "deleteChannelMessages" /\ last'.channel = r.channel_name
       /\ (StatementAlone /\ last'.op = "deleteChannelMessages")
            => \A r \in messages : r.channel_name # last'.channel => r \in messages'
       /\ (CallAlone /\ last'.op = "storeMessage")
            => \A r \in messages : KeyOf(r) # <<last'.channel, last'.thread, last'.chunk_index>> => r \in messages'
       /\ (CallAlone /\ last'.op = "chunkAndStoreMessage")
            => \A r \in messages : <<r.channel_name, r.thread_ts>> # <<last'.channel, last'.thread>> => r \in messages'
       /\ (StatementAlone /\ last'.op \in {"searchSimilarMessages", "getRelevantContext"})
            => messages' = messages
       /\ \A p \in Tasks : tasks'[p] # tasks[p] =>
              \A r \in messages : (tasks[p].pc = "write" /\ KeyOf(r) = <<tasks[p].channel, tasks[p].thread, CurrentIndex(tasks[p])>>) \/ r \in messages']_vars

\* a channel emptied of its rows after two calls have begun and while one
\* of them is between two of its awaits, rows of another channel staying
C22_Witness ==
    /\ last.op = "deleteChannelMessages"
    /\ last.rowCount > 0
    /\ messages # {}
    /\ calls = MaxCalls
    /\ \E p \in Tasks : InFlight(p)

----------------------------------------------------------------------------
(* Concurrent specification: every handler task runs one chunkAndStoreMessage *)
(* call; each await of the call (the embedding request, the SELECT, the       *)
(* UPDATE or INSERT) is a step of its own, and the steps of different tasks   *)
(* interleave.  A channel deletion is a single statement.                     *)

MaxDeletes == 1        \* channel deletions per run of the concurrent specification

\* deleteChannelMessages, one DELETE statement, while calls are in flight
DeleteDuringCalls(channelName) ==
    /\ calls < MaxDeletes
    /\ LET res == deleteChannelMessages(messages, channelName)
       IN  /\ messages' = res.rows
           /\ last' = [op |-> "deleteChannelMessages", channel |-> channelName,
                       rowCount |-> res.rowCount]
    /\ calls' = calls + 1
    /\ UNCHANGED <<nextId, tasks, handler>>

NextConc ==
    \/ \E p \in Tasks, c \in Channels, d \in Documents, s \in Senders :
         StartCall(p, c, d, s.user, s.ts)
    \/ \E p \in Tasks : EmbedOk(p)
    \/ \E p \in Tasks : EmbedFails(p)
    \/ \E p \in Tasks : SelectExisting(p)
    \/ \E p \in Tasks : WriteUpdate(p)
    \/ \E p \in Tasks : WriteInsert(p)
    \/ \E c \in Channels : DeleteDuringCalls(c)

SpecConc == Init /\ [][NextConc]_vars

----------------------------------------------------------------------------
(* Re-ingestion specification: two chunkAndStoreMessage calls on one       *)
(* thread, each await of each a step of its own, the second beginning      *)
(* before, while or after the first runs, and searches at any moment.      *)

\* who wrote the thread first, and who writes it again
FirstSender == [user |-> "alice", ts |-> 1]
SecondSender == [user |-> "bob", ts |-> 2]
Seeder == "B"
Writer == "A"

\* a text of four chunks, "a.", "cde", "cde", "ab.", the second and third equal
Doc5 == <<"a", ".", "c", "d", "e", ".", "c", "d", "e", ".", "a", "b", ".">>
ReingestDocuments == Documents \cup {Doc5}

\* the first sender's chunkAndStoreMessage call begins
Seed(content) ==
    /\ tasks[Seeder].pc = "idle"
    /\ tasks' = [tasks EXCEPT ![Seeder] =
                   CallEntry("C1", RacedThread, content, FirstSender.user, FirstSender.ts)]
    /\ UNCHANGED <<messages, nextId, last, calls, handler>>

\* the second sender's call begins; the calls that have returned by then
\* are remembered
Reingest(content) ==
    /\ tasks[Writer].pc = "idle"
    /\ tasks' = [tasks EXCEPT ![Writer] =
                   [CallEntry("C1", RacedThread, content, SecondSender.user, SecondSender.ts)
                       EXCEPT !.began = [Untracked EXCEPT !.after = {q \in Tasks : tasks[q].pc = "done"}]]]
    /\ UNCHANGED <<messages, nextId, last, calls, handler>>

\* a searchSimilarMessages call of another request
Observe(queryVector) ==
    /\ \E result \in searchSimilarMessages(messages, queryVector, ContextLimit, ContextMinSimilarity, NoFilters) :
         last' = [op |-> "searchSimilarMessages", query |-> queryVector, result |-> result]
    /\ UNCHANGED <<messages, nextId, calls, tasks, handler>>

NextReingest ==
    \/ \E d \in ReingestDocuments : Seed(d)
    \/ \E d \in ReingestDocuments : Reingest(d)
    \/ CallStep
    \/ \E q \in Vectors : Observe(q)

SpecReingest == Init /\ [][NextReingest]_vars

\* the row carries what the call writes: its sender, date and total_chunks
\* and the content of one of its chunks
refreshedBy(task, r) ==
    /\ r.channel_name = task.channel
    /\ r.thread_ts = task.thread
    /\ r.user_name = task.user
    /\ r.created_at = messageDate(task.ts)
    /\ r.metadata.total_chunks = Len(task.chunks)
    /\ \E j \in 1..Len(task.chunks) : task.chunks[j] = r.content

\* C24 (Sequential index-order writes): at every moment of a
\* chunkAndStoreMessage call that began after an earlier call on the thread
\* had returned, the indices of the rows the call has refreshed are the
\* prefix 0..i-1 of the document's indices, i the number of writes it has
\* completed, and every other row of the thread is as the earlier call left
\* it.
C24_PrefixRefreshed ==
    (InFlight(Writer) /\ tasks[Writer].began.after = {Seeder}) =>
        LET task == tasks[Writer]
            rows == RowsOfThread(messages, task.channel, task.thread)
        IN  /\ {r.chunk_index : r \in {o \in rows : refreshedBy(task, o)}} = 0..(task.i - 2)
            /\ \A r \in rows : ~refreshedBy(task, r) => r.user_name = FirstSender.user /\ r.created_at = FirstSender.ts

----------------------------------------------------------------------------
(* Claims settled under SpecConc *)

\* C1: at every moment the table holds at most one row per
\* (channel_name, thread_ts, chunk_index), whatever the interleaving of the
\* SELECT and the UPDATE or INSERT of concurrent storeMessage calls.
C1_UniqueKey ==
    \A r1, r2 \in messages : KeyOf(r1) = KeyOf(r2) => r1 = r2

\* C26 (Channel deletion is final): once deleteChannelMessages(c) has
\* returned, and every chunkAndStoreMessage call for c began before it, the
\* table holds no row of channel c, whatever those calls still write.
C26_DeletionFinal ==
    (/\ last.op = "deleteChannelMessages"
     /\ \A p \in Tasks : (tasks[p].pc # "idle" /\ tasks[p].began.channel = last.channel) => tasks[p].began.deletions < calls)
        => \A r \in messages : r.channel_name # last.channel

----------------------------------------------------------------------------
(* Claims settled under Spec *)

\* C2: a chunkAndStoreMessage call that repeats the call just before it with
\* identical arguments leaves the number of rows and the set of keys as the
\* first call left them.
C2_Idempotent ==
    [][(CallAlone /\ last'.op = "chunkAndStoreMessage" /\ last'.again) =>
          /\ Cardinality(messages') = Cardinality(messages)
          /\ Keys(messages') = Keys(messages)]_vars

C2_Witness ==
    /\ last.op = "chunkAndStoreMessage"
    /\ last.again
    /\ Len(last.chunks) = 2
    /\ Cardinality(RowsOfThread(messages, last.channel, last.thread)) = 2

\* C3: after chunkAndStoreMessage has stored a text of N chunks into a thread
\* that had no rows, the thread's rows carry the indices 0..N-1, one row per
\* index, each holding the chunk at its position and total_chunks = N.
C3_Contiguity ==
    [][(CallAlone /\ last'.op = "chunkAndStoreMessage" /\ last'.fresh) =>
          LET rows == RowsOfThread(messages', last'.channel, last'.thread)
              N == Len(last'.chunks)
          IN  /\ {r.chunk_index : r \in rows} = 0..(N - 1)
              /\ Cardinality(rows) = N
              /\ \A r \in rows :
                    /\ r.content = last'.chunks[r.chunk_index + 1]
                    /\ r.metadata.total_chunks = N]_vars

\* C9: a storeMessage call, run alone, for a key that already has a row keeps
\* the row count, returns the existing row's id and replaces the row's
\* content, sender name and title, embedding, metadata and created_at, so that
\* no row of the key keeps the old content.
C9_OverwriteInPlace ==
    [][(CallAlone /\ last'.op = "storeMessage" /\ last'.existing # {}) =>
          LET key == <<last'.channel, last'.thread, last'.chunk_index>> IN
          /\ Cardinality(messages') = Cardinality(messages)
          /\ last'.id \in last'.existing
          /\ {r.id : r \in RowsOfKey(messages', key)} = last'.existing
          /\ \A r \in RowsOfKey(messages', key) :
                /\ r.content = last'.content
                /\ r.user_name = last'.user
                /\ r.user_title = TitleOf(last'.user)
                /\ r.embedding = generateEmbedding(last'.content)
                /\ r.metadata = last'.metadata
                /\ r.created_at = messageDate(last'.ts)
          /\ messages' \ RowsOfKey(messages', key)
                = messages \ RowsOfKey(messages, key)]_vars

C9_Witness ==
    /\ last.op = "storeMessage"
    /\ last.replaced = {Friday}
    /\ last.content = Monday
    /\ \E r \in messages : r.id = last.id /\ r.content = Monday
    /\ \A r \in messages : r.content # Friday

\* C12: a deleteChannelMessages(c) step removes the rows of channel c and no
\* other row, reports the number of rows it removed, and leaves a table in
\* which a search restricted to channel c finds nothing.
C12_DeleteFrame ==
    [][(StatementAlone /\ last'.op = "deleteChannelMessages") =>
          /\ messages' = {r \in messages : r.channel_name # last'.channel}
          /\ messages' \subseteq messages
          /\ last'.rowCount = Cardinality(messages) - Cardinality(messages')
          /\ \A q \in Vectors, m \in {0, ContextMinSimilarity} :
                searchSimilarMessages(messages', q, ContextLimit, m, [NoFilters EXCEPT !.channel = last'.channel]) = {<<>>}]_vars

\* a deletion that removed rows of its channel and left rows of the other one
C12_Witness ==
    /\ last.op = "deleteChannelMessages"
    /\ last.rowCount >= 1
    /\ messages # {}
    /\ \A r \in messages : r.channel_name # last.channel

\* C14 (Empty input): splitIntoChunks gives no chunk for the empty string,
\* null and undefined, and a chunkAndStoreMessage step with such a content
\* stores no chunk and leaves the table and its id counter as they were.
C14_EmptyInput ==
    [][(/\ \A text \in EmptyContents, maxTokens \in 0..ChunkTokenBudget : splitIntoChunks(text, maxTokens) = <<>>)
       /\ ((CallAlone /\ last'.op = "chunkAndStoreMessage" /\ last'.content \in EmptyContents) =>
              /\ last'.chunks = <<>>
              /\ messages' = messages
              /\ nextId' = nextId)]_vars

\* an empty content handed to chunkAndStoreMessage while the thread has rows
C14_Witness ==
    /\ last.op = "chunkAndStoreMessage"
    /\ last.content = EmptyText
    /\ RowsOfThread(messages, last.channel, last.thread) # {}

\* the rows of the thread of the last call that hold one of the given indices
RowsAt(rows, indices) == {r \in RowsOfThread(rows, last'.channel, last'.thread) : r.chunk_index \in indices}

\* C15 (Embedding failure leaves partial writes): when chunkAndStoreMessage
\* throws because generateEmbedding failed at the chunk at position k, every
\* chunk before k has its row, with the new content, under the index the
\* call gave it, and every other row of the table is as it was.
C15_PartialWrites ==
    [][(CallAlone /\ last'.op = "chunkAndStoreMessage threw") =>
          LET chunks == last'.chunks
              written == {chunkIndexOf(chunks, i) : i \in 1..(last'.failAt - 1)}
          IN  /\ \A i \in 1..(last'.failAt - 1) :
                    \E r \in RowsAt(messages', {chunkIndexOf(chunks, i)}) :
                        /\ r.content = chunks[i]
                        /\ r.metadata = [total_chunks |-> Len(chunks)]
              /\ messages' \ RowsAt(messages', written) = messages \ RowsAt(messages, written)]_vars

\* a call that wrote its first chunk over an older one and threw at the second,
\* the thread holding an older row for that second index
C15_Witness ==
    /\ last.op = "chunkAndStoreMessage threw"
    /\ last.failAt = 2
    /\ \E r \in RowsOfThread(messages, last.channel, last.thread) :
          r.chunk_index = 0 /\ r.content = last.chunks[1] /\ r.user_name = last.user
    /\ \E r \in RowsOfThread(messages, last.channel, last.thread) :
          r.chunk_index = 1 /\ r.content # last.chunks[2]
\* the rows of a thread carry the indices 0..N-1 and one common total_chunks = N
consistentThread(rows) ==
    \A r \in rows :
        /\ {o.chunk_index : o \in rows} = 0..(r.metadata.total_chunks - 1)
        /\ Cardinality(rows) = r.metadata.total_chunks

\* a step that stores a text of fewer chunks into a thread stored with more
shrinkingStep ==
    /\ CallAlone
    /\ last'.op = "chunkAndStoreMessage"
    /\ RowsOfThread(messages, last'.channel, last'.thread) # {}
    /\ consistentThread(RowsOfThread(messages, last'.channel, last'.thread))
    /\ Len(last'.chunks) < Cardinality(RowsOfThread(messages, last'.channel, last'.thread))

\* what the claim says of the table after such a step
staleChunksSurvive ==
    /\ \A r \in RowsOfThread(messages, last'.channel, last'.thread) :
          r.chunk_index >= Len(last'.chunks) =>
             /\ r \in messages'
             /\ r \in eligibleRows(messages', r.embedding, ContextMinSimilarity, NoFilters)
    /\ ~consistentThread(RowsOfThread(messages', last'.channel, last'.thread))

\* C23 as stated (Stale trailing chunks survive shrinking re-ingestion),
\* for every M < N, a text of no chunk (M = 0) included.
C23_StaleChunksOriginal == [][shrinkingStep => staleChunksSurvive]_vars

\* C23 (Stale trailing chunks survive shrinking re-ingestion), amended: when
\* a thread stored with N chunks is ingested again with a text of M chunks,
\* 0 < M < N, the rows of index M..N-1 stay in the table as they were, old
\* content and old total_chunks = N, a search can still return them, and the
\* rows of the thread no longer carry one common total_chunks.
C23_StaleChunks == [][(shrinkingStep /\ Len(last'.chunks) > 0) => staleChunksSurvive]_vars

\* a thread whose row of index 1 is older than the one-chunk text just stored
C23_Witness ==
    /\ last.op = "chunkAndStoreMessage"
    /\ Len(last.chunks) = 1
    /\ \E r \in RowsOfThread(messages, last.channel, last.thread) :
          /\ r.chunk_index = 1
          /\ r.metadata.total_chunks = 2
    /\ \E r \in RowsOfThread(messages, last.channel, last.thread) :
          /\ r.chunk_index = 0
          /\ r.metadata.total_chunks = 1
          /\ r.content = last.chunks[1]


----------------------------------------------------------------------------
(* processMessageContent *)

\* the pieces of the string processMessageContent builds
TextBlock(text) == [kind |-> "text", of |-> text]
LinkBlock(link) == [kind |-> "link", of |-> <<link>>]
SummaryBlock(link) == [kind |-> "summary", of |-> <<link>>]

\* the characters of a block, and of a document
RenderBlock(b) == IF b.kind = "text" THEN b.of ELSE IF b.kind = "link" THEN <<"L">> \o b.of \o <<".">> ELSE <<"S">> \o b.of \o <<".">>

RECURSIVE RenderFrom(_, _)
RenderFrom(blocks, i) == IF i > Len(blocks) THEN <<>> ELSE RenderBlock(blocks[i]) \o RenderFrom(blocks, i + 1)

Render(document) == RenderFrom(document.blocks, 1)

\* the links of a reply: each processLink that returns adds a block; a
\* Google Drive error posts the permission notice to the thread, and a notice
\* that cannot be posted throws out of the catch block
RECURSIVE ReplyLinks(_, _, _, _, _)
ReplyLinks(replyLinks, i, acc, outcome, postOk) ==
    IF i > Len(replyLinks)
    THEN acc
    ELSE IF outcome[replyLinks[i]] = "ok"
         THEN ReplyLinks(replyLinks, i + 1, [acc EXCEPT !.blocks = Append(@, LinkBlock(replyLinks[i]))], outcome, postOk)
         ELSE IF outcome[replyLinks[i]] = "Google Drive"
              THEN IF postOk
                   THEN ReplyLinks(replyLinks, i + 1, [acc EXCEPT !.notices = @ + 1], outcome, postOk)
                   ELSE [acc EXCEPT !.threw = TRUE]
              ELSE ReplyLinks(replyLinks, i + 1, acc, outcome, postOk)

\* mutant: the loop does not skip the replies of the bot
RECURSIVE ThreadLoop_keepsBot(_, _, _, _, _)
ThreadLoop_keepsBot(threadMessages, j, acc, outcome, postOk) ==
    IF j > Len(threadMessages) \/ acc.threw
    THEN acc
    ELSE ThreadLoop_keepsBot(threadMessages, j + 1,
                             ReplyLinks(threadMessages[j].links, 1, [acc EXCEPT !.blocks = Append(@, TextBlock(threadMessages[j].text))], outcome, postOk),
                             outcome, postOk)

\* the loop over the messages of the thread
RECURSIVE ThreadLoop(_, _, _, _, _)
ThreadLoop(threadMessages, j, acc, outcome, postOk) ==
    IF j > Len(threadMessages) \/ acc.threw
    THEN acc
    ELSE IF threadMessages[j].user = Bot
         THEN ThreadLoop(threadMessages, j + 1, acc, outcome, postOk)
         ELSE ThreadLoop(threadMessages, j + 1,
                         ReplyLinks(threadMessages[j].links, 1, [acc EXCEPT !.blocks = Append(@, TextBlock(threadMessages[j].text))], outcome, postOk),
                         outcome, postOk)

\* the links of the message itself: a failure is logged and skipped
RECURSIVE MessageLinks(_, _, _, _)
MessageLinks(links, i, blocks, outcome) ==
    IF i > Len(links)
    THEN blocks
    ELSE MessageLinks(links, i + 1, IF outcome[links[i]] = "ok" THEN Append(blocks, SummaryBlock(links[i])) ELSE blocks, outcome)

NoThreadContent == [blocks |-> <<>>, notices |-> 0, threw |-> FALSE]

\* processMessageContent: the document it returns and the permission notices
\* it posted.  threadResponse is the answer of conversations.replies, outcome
\* what processLink does for each url during this call, postOk whether
\* chat.postMessage returns during this call.
processMessageContent(message, threadResponse, outcome, postOk) ==
    IF message.user = Bot
    THEN [storable |-> NullDocument, notices |-> 0]
    ELSE IF message.thread_ts # NoThreadTs /\ ~threadResponse.ok
         THEN [storable |-> NullDocument, notices |-> 0]
         ELSE LET thread == IF message.thread_ts # NoThreadTs
                            THEN ThreadLoop(threadResponse.messages, 1, NoThreadContent, outcome, postOk)
                            ELSE NoThreadContent
                  head == IF thread.blocks # <<>> THEN thread.blocks ELSE <<TextBlock(message.text)>>
              IN  IF thread.threw
                  THEN [storable |-> NullDocument, notices |-> thread.notices]
                  ELSE [storable |-> [null |-> FALSE, blocks |-> MessageLinks(message.links, 1, head, outcome)],
                        notices |-> thread.notices]

\* the links whose processLink throws during a processMessageContent call
failedLinks(linkList, outcome) == {linkList[i] : i \in {k \in 1..Len(linkList) : outcome[linkList[k]] # "ok"}}

----------------------------------------------------------------------------
(* Webhook handler.  Every request runs router.post as a task of its own;    *)
(* every await of router.post, and of the chunkAndStoreMessage call it       *)
(* makes, is a step, and the steps of the requests in flight interleave.  A  *)
(* collaborator (Slack, the link extractors, the embedding service, the      *)
(* database, the answer generator) may fail at any step.  Events carry no    *)
(* files, and no text of the model holds a Notion or spreadsheet url.        *)

MaxEvents == 2         \* events delivered per run of the handler specification

BackfillCap == 500     \* while (cursor && processedCount < 500)
HistoryLimit == 100    \* conversations.history({ limit: 100 })

\* the numbers of messages a history page holds in the backfill specification
PageSizes == {HistoryLimit \div 2, HistoryLimit - 1, HistoryLimit}

EventText == Doc1
RootText == <<"c", "d", ".">>
BotText == <<"z", ".">>   \* what the bot posts; no user writes a z

\* the ts and thread_ts an event can carry: a message that opens a thread and
\* a reply in that thread
EventStamps == {[ts |-> "100.1", thread_ts |-> NoThreadTs], [ts |-> "200.2", thread_ts |-> "100.1"]}

EventUsers == {"alice", Bot, NoUser}

\* req.body.authorizations[0].user_id of a request that reports a join: the
\* bot's id, another user's, or nothing
Authorizations == {Bot, "alice", NoAuthorizations}

\* the requests that report a member joining a channel: the event, and the
\* user id of the first authorization of the request body
JoinEvents ==
    {[type |-> t, channel |-> c, user |-> u, ts |-> "200.2", thread_ts |-> NoThreadTs, text |-> <<>>, links |-> <<>>, authorizations |-> a] :
        t \in JoinTypes, c \in Channels, u \in EventUsers, a \in Authorizations}

\* the events delivered: a leave or join event has no text
Events ==
    {[type |-> t, channel |-> c, user |-> u, ts |-> s.ts, thread_ts |-> s.thread_ts, text |-> EventText, links |-> l, authorizations |-> Bot] :
        t \in {"app_mention", "message"}, c \in Channels, u \in EventUsers,
        s \in EventStamps, l \in LinkLists}
    \cup {[type |-> t, channel |-> c, user |-> u, ts |-> "200.2", thread_ts |-> NoThreadTs, text |-> <<>>, links |-> <<>>, authorizations |-> Bot] :
        t \in LeaveTypes, c \in Channels, u \in EventUsers}
    \cup JoinEvents
    \cup {MalformedEvent}

\* the event of the request that overlaps another: a message of bob that
\* opens the thread 100.1 of channel C1
OverlapEvents ==
    {[type |-> "message", channel |-> "C1", user |-> "bob", ts |-> "100.1", thread_ts |-> NoThreadTs, text |-> EventText, links |-> <<>>, authorizations |-> Bot]}

\* const threadTs = event.thread_ts || event.ts
threadTsOf(event) == IF event.thread_ts # NoThreadTs THEN event.thread_ts ELSE event.ts

\* event.text once the default branch has appended the link summaries to it
textOf(h) == IF h.summarised THEN h.event.text \o h.event.links ELSE h.event.text
linksOf(h) == IF h.summarised THEN h.event.links \o h.event.links ELSE h.event.links

\* the message processIncomingMessagePayload hands to processMessageContent
payloadMessage(h) == [text |-> textOf(h), user |-> h.event.user, thread_ts |-> threadTsOf(h.event), ts |-> h.event.ts, links |-> linksOf(h)]

\* the event's message as Slack holds it, and the messages that may stand
\* before it in its thread
SelfMessage(event) == [user |-> event.user, text |-> event.text, links |-> event.links]
RootMessages == {[user |-> Bot, text |-> BotText, links |-> <<WebLink>>], [user |-> "bob", text |-> RootText, links |-> <<DriveLink>>]}

\* what conversations.replies can answer for the event's thread
ThreadResponses(event) ==
    {[ok |-> FALSE, messages |-> <<>>], [ok |-> TRUE, messages |-> <<>>], [ok |-> TRUE, messages |-> <<SelfMessage(event)>>]}
    \cup (IF event.thread_ts # NoThreadTs /\ event.thread_ts # event.ts
          THEN {[ok |-> TRUE, messages |-> <<root, SelfMessage(event)>>] : root \in RootMessages}
          ELSE {})

Finished(p) == handler[p].pc \in {"returned", "caught"}

Goto(p, pc) == [handler EXCEPT ![p].pc = pc]

\* mutant: the body of router.post is not inside a try
Caught_escapes(p, fault) == [handler EXCEPT ![p].pc = "escaped", ![p].faults = @ \cup {fault}]

\* catch (error) of router.post: the error is logged and the handler ends
Caught(p, fault) == [handler EXCEPT ![p].pc = "caught", ![p].faults = @ \cup {fault}]

\* router.post: the response is sent and the event's fields are read.  The
\* request becomes task p, whatever the other task is doing.
Receive(p, event) ==
    /\ handler[p].pc = "idle"
    /\ calls < MaxEvents
    /\ calls' = calls + 1
    /\ handler' = [handler EXCEPT ![p] =
                      IF event = MalformedEvent
                      THEN [IdleHandler EXCEPT !.pc = "caught", !.event = event, !.faults = {"TypeError"}, !.previous = {handler[q].pc : q \in Tasks \ {p}} \cap {"caught"}]
                      ELSE [IdleHandler EXCEPT !.pc = "users.info", !.event = event, !.previous = {handler[q].pc : q \in Tasks \ {p}} \cap {"caught"}]]
    /\ UNCHANGED <<messages, nextId, last, tasks>>

\* slack.users.info and the reading of userInfo.user.profile
UsersInfo(p, response) ==
    /\ handler[p].pc = "users.info"
    /\ response = "user" => handler[p].event.user # NoUser
    /\ response = "no user" => handler[p].event.user = NoUser
    /\ handler' = IF response = "user" THEN Goto(p, "conversations.info") ELSE Caught(p, "users.info")
    /\ UNCHANGED <<messages, nextId, last, calls, tasks>>

\* slack.conversations.info
ConversationsInfo(p, ok) ==
    /\ handler[p].pc = "conversations.info"
    /\ handler' = IF ok THEN Goto(p, "switch") ELSE Caught(p, "conversations.info")
    /\ UNCHANGED <<messages, nextId, last, calls, tasks>>

\* switch (event.type)
Switch(p) ==
    /\ handler[p].pc = "switch"
    /\ handler' = IF handler[p].event.type \in JoinTypes THEN Goto(p, "join")
                  ELSE IF handler[p].event.type \in LeaveTypes THEN Goto(p, "leave")
                  ELSE IF handler[p].event.type = "app_mention" THEN Goto(p, "mention.react")
                  ELSE Goto(p, "default.links")
    /\ UNCHANGED <<messages, nextId, last, calls, tasks>>

\* case 'group_left', 'member_left_channel', 'channel_left'
Leave(p) ==
    /\ handler[p].pc = "leave"
    /\ IF Callable("deleteChannelMessages")
       THEN /\ messages' = deleteChannelMessages(messages, handler[p].event.channel).rows
            /\ handler' = [handler EXCEPT ![p].pc = "returned", ![p].deleted = TRUE]
       ELSE /\ handler' = Caught(p, "ReferenceError")
            /\ UNCHANGED messages
    /\ UNCHANGED <<nextId, last, calls, tasks>>

\* the message of a history page that is followed in detail; the other
\* messages of the page are posts of the bot
HistoryMessages == {[user |-> u, text |-> EventText, ts |-> t, thread_ts |-> NoThreadTs, links |-> <<>>] : u \in {"alice", Bot}, t \in Threads}

NoReplies == [ok |-> TRUE, messages |-> <<>>]

\* case 'member_joined_channel', 'group_joined':
\* if (event.user === req.body.authorizations[0].user_id); reading user_id
\* of a missing authorization throws into the catch
Join(p) ==
    /\ handler[p].pc = "join"
    /\ handler' = IF handler[p].event.authorizations = NoAuthorizations THEN Caught(p, "TypeError")
                  ELSE IF handler[p].event.user = handler[p].event.authorizations THEN Goto(p, "join.info")
                  ELSE Goto(p, "returned")
    /\ UNCHANGED <<messages, nextId, last, calls, tasks>>

\* slack.conversations.info of the joined channel
JoinInfo(p, ok) ==
    /\ handler[p].pc = "join.info"
    /\ handler' = IF ok THEN Goto(p, "join.welcome") ELSE Caught(p, "conversations.info")
    /\ UNCHANGED <<messages, nextId, last, calls, tasks>>

\* the welcome message, then let processedCount = 0
JoinWelcome(p, ok) ==
    /\ handler[p].pc = "join.welcome"
    /\ handler' = IF ok THEN [handler EXCEPT ![p].pc = "join.history", ![p].posted = Append(@, "welcome"), ![p].attempted = @ \cup {"welcome"}]
                  ELSE [Caught(p, "chat.postMessage") EXCEPT ![p].attempted = @ \cup {"welcome"}]
    /\ UNCHANGED <<messages, nextId, last, calls, tasks>>

\* mutant: the for loop has no try around processMessage
PageDone_stopsOnFailure(h, failed) ==
    IF failed
    THEN [h EXCEPT !.pc = "caught", !.faults = @ \cup {"processMessage"}]
    ELSE [h EXCEPT !.processedCount = @ + h.page,
                   !.pc = IF h.cursor /\ h.processedCount + h.page < BackfillCap THEN "join.history" ELSE "join.done"]

\* the end of a page of h.page messages: processMessage has returned for the
\* followed message, or has thrown into the catch of its try (failed); every
\* message of the page is counted, and while (cursor && processedCount < 500)
\* decides whether another page is read
PageDone(h, failed) ==
    [h EXCEPT !.processedCount = @ + h.page,
              !.faults = @ \cup (IF failed THEN {"processMessage"} ELSE {}),
              !.pc = IF h.cursor /\ h.processedCount + h.page < BackfillCap THEN "join.history" ELSE "join.done"]

\* one round of the do-while loop: a page of size messages is fetched, more
\* being whether it carries a next_cursor, and processMessage runs for the
\* followed message up to its call of chunkAndStoreMessage; infoOk is whether
\* users.info answers
JoinHistory(p, ok, size, more, message, infoOk) ==
    /\ handler[p].pc = "join.history"
    /\ IF ~ok
       THEN /\ handler' = Caught(p, "conversations.history")
            /\ UNCHANGED tasks
       ELSE LET storable == processMessageContent(message, NoReplies, AllLinksOk, TRUE).storable
                page == [handler[p] EXCEPT !.page = size, !.cursor = more]
            IN  IF storable.null \/ ~infoOk
                THEN /\ handler' = [handler EXCEPT ![p] = PageDone(page, ~storable.null)]
                     /\ UNCHANGED tasks
                ELSE /\ handler' = [handler EXCEPT ![p] = [page EXCEPT !.pc = "join.storing"]]
                     /\ tasks' = [tasks EXCEPT ![p] =
                                     CallEntry(handler[p].event.channel,
                                               IF message.thread_ts # NoThreadTs THEN message.thread_ts ELSE message.ts,
                                               Render(storable), message.user, parseTs(message.ts))]
    /\ UNCHANGED <<messages, nextId, last, calls>>

\* the chunkAndStoreMessage call of processMessage has returned, or has
\* thrown into the catch of the try around processMessage
JoinStored(p) ==
    /\ handler[p].pc = "join.storing"
    /\ tasks[p].pc \in {"done", "failed"}
    /\ handler' = [handler EXCEPT ![p] = PageDone(handler[p], tasks[p].pc = "failed")]
    /\ tasks' = [tasks EXCEPT ![p] = IdleTask]
    /\ UNCHANGED <<messages, nextId, last, calls>>

\* the completion message
JoinDone(p, ok) ==
    /\ handler[p].pc = "join.done"
    /\ handler' = IF ok THEN [handler EXCEPT ![p].pc = "returned", ![p].posted = Append(@, "completion"), ![p].attempted = @ \cup {"completion"}]
                  ELSE [Caught(p, "chat.postMessage") EXCEPT ![p].attempted = @ \cup {"completion"}]
    /\ UNCHANGED <<messages, nextId, last, calls, tasks>>

\* case 'app_mention': slack.reactions.add
MentionReact(p, ok) ==
    /\ handler[p].pc = "mention.react"
    /\ handler' = IF ok THEN Goto(p, "mention.payload") ELSE Caught(p, "reactions.add")
    /\ UNCHANGED <<messages, nextId, last, calls, tasks>>

\* processIncomingMessagePayload, then taggedMessage.substring
MentionPayload(p, infoOk, outcome, postOk) ==
    /\ handler[p].pc = "mention.payload"
    /\ \E threadResponse \in ThreadResponses(handler[p].event) :
         LET res == processMessageContent(payloadMessage(handler[p]), threadResponse, outcome, postOk)
             posted == handler[p].posted \o [i \in 1..res.notices |-> "permission"]
         IN  handler' = IF ~infoOk THEN Caught(p, "conversations.info")
                      ELSE IF res.storable.null
                           THEN [handler EXCEPT ![p].pc = "caught", ![p].faults = @ \cup {"TypeError"}, ![p].posted = posted, ![p].outcome = outcome]
                           ELSE [handler EXCEPT ![p].pc = "mention.links", ![p].thread = threadResponse.messages, ![p].storable = res.storable, ![p].posted = posted, ![p].outcome = outcome]
    /\ UNCHANGED <<messages, nextId, last, calls, tasks>>

\* the link summaries of the mention; a Google Drive error posts the
\* permission notice from inside the catch block
MentionLinks(p, outcome, postOk) ==
    /\ handler[p].pc = "mention.links"
    /\ LET drive == {i \in 1..Len(handler[p].event.links) : outcome[handler[p].event.links[i]] = "Google Drive"}
       IN  handler' = IF drive = {} THEN Goto(p, "mention.context")
                      ELSE IF postOk
                           THEN [handler EXCEPT ![p].pc = "mention.context", ![p].posted = @ \o [i \in 1..Cardinality(drive) |-> "permission"]]
                           ELSE Caught(p, "chat.postMessage")
    /\ UNCHANGED <<messages, nextId, last, calls, tasks>>

\* const context = await getRelevantContext(taggedMessage): the embedding
\* request or the query may throw, and nothing around the call catches it
MentionContext(p, ok) ==
    /\ handler[p].pc = "mention.context"
    /\ IF ok
       THEN \E similarMessages \in searchSimilarMessages(messages, generateEmbedding(Render(handler[p].storable)), ContextLimit, ContextMinSimilarity, NoFilters) :
               handler' = [handler EXCEPT ![p].pc = "mention.thread", ![p].context = getRelevantContext(similarMessages, DefaultMaxTokens).context]
       ELSE handler' = Caught(p, "getRelevantContext")
    /\ UNCHANGED <<messages, nextId, last, calls, tasks>>

\* slack.conversations.replies for the conversation thread
MentionThread(p, ok) ==
    /\ handler[p].pc = "mention.thread"
    /\ handler' = IF ok THEN Goto(p, "mention.answer") ELSE Caught(p, "conversations.replies")
    /\ UNCHANGED <<messages, nextId, last, calls, tasks>>

\* mutant: the catch of the answer only logs
MentionAnswer_noApology(p, generateOk, answerOk, apologyOk) ==
    /\ handler[p].pc = "mention.answer"
    /\ handler' = IF generateOk /\ answerOk
                  THEN [handler EXCEPT ![p].pc = "returned", ![p].attempted = @ \cup {"answer"}, ![p].posted = Append(@, "answer")]
                  ELSE [handler EXCEPT ![p].pc = "returned",
                                       ![p].faults = @ \cup {IF generateOk THEN "chat.postMessage" ELSE "messages.create"},
                                       ![p].attempted = @ \cup (IF generateOk THEN {"answer"} ELSE {})]
    /\ UNCHANGED <<messages, nextId, last, calls, tasks>>

\* anthropic.messages.create and the post of its answer, inside a try whose
\* catch posts the apology
MentionAnswer(p, generateOk, answerOk, apologyOk) ==
    /\ handler[p].pc = "mention.answer"
    /\ handler' = IF generateOk /\ answerOk
                  THEN [handler EXCEPT ![p].pc = "returned", ![p].attempted = @ \cup {"answer"}, ![p].posted = Append(@, "answer")]
                  ELSE LET tried == handler[p].attempted \cup (IF generateOk THEN {"answer"} ELSE {}) \cup {"apology"}
                           fault == IF generateOk THEN "chat.postMessage" ELSE "messages.create"
                       IN  IF apologyOk
                           THEN [handler EXCEPT ![p].pc = "returned", ![p].faults = @ \cup {fault}, ![p].attempted = tried, ![p].posted = Append(@, "apology")]
                           ELSE [handler EXCEPT ![p].pc = "caught", ![p].faults = @ \cup {fault, "chat.postMessage"}, ![p].attempted = tried]
    /\ UNCHANGED <<messages, nextId, last, calls, tasks>>

\* default: the link summaries appended to event.text, and the notebook
\* reaction when every link was processed
DefaultLinks(p, outcome, reactionOk) ==
    /\ handler[p].pc = "default.links"
    /\ LET summarise == Len(handler[p].event.links) > 0 /\ handler[p].event.user # Bot
           failed == IF summarise THEN failedLinks(handler[p].event.links, outcome) ELSE {}
           processedLinks == IF summarise THEN Len(handler[p].event.links) - Cardinality({i \in 1..Len(handler[p].event.links) : outcome[handler[p].event.links[i]] # "ok"}) ELSE 0
           reacts == processedLinks = Len(handler[p].event.links) /\ processedLinks > 0
       IN  handler' = [handler EXCEPT ![p].pc = "default.payload",
                                      ![p].summarised = summarise,
                                      ![p].faults = @ \cup (IF failed # {} THEN {"link summary"} ELSE {}) \cup (IF reacts /\ ~reactionOk THEN {"reactions.add"} ELSE {})]
    /\ UNCHANGED <<messages, nextId, last, calls, tasks>>

\* const storable = await processIncomingMessagePayload(event, req)
DefaultPayload(p, infoOk, outcome, postOk) ==
    /\ handler[p].pc = "default.payload"
    /\ \E threadResponse \in ThreadResponses(handler[p].event) :
       LET message == payloadMessage(handler[p])
           res == processMessageContent(message, threadResponse, outcome, postOk)
           called == IF message.user = Bot \/ ~threadResponse.ok THEN {}
                     ELSE UNION {failedLinks(threadResponse.messages[j].links, outcome) : j \in {k \in 1..Len(threadResponse.messages) : threadResponse.messages[k].user # Bot}}
           drive == {l \in called : outcome[l] = "Google Drive"}
           faults == (IF message.user # Bot /\ ~threadResponse.ok THEN {"conversations.replies"} ELSE {})
                     \cup (IF called # {} \/ (~res.storable.null /\ failedLinks(message.links, outcome) # {}) THEN {"processLink"} ELSE {})
                     \cup (IF drive # {} /\ ~postOk THEN {"permission notice"} ELSE {})
       IN  handler' = IF ~infoOk THEN Caught(p, "conversations.info")
                      ELSE [handler EXCEPT ![p].pc = IF res.storable.null THEN "returned" ELSE "default.store",
                                           ![p].thread = threadResponse.messages,
                                           ![p].storable = res.storable,
                                           ![p].outcome = outcome,
                                           ![p].faults = @ \cup faults,
                                           ![p].posted = @ \o [i \in 1..res.notices |-> "permission"]]
    /\ UNCHANGED <<messages, nextId, last, calls, tasks>>

\* if (storable): users.info for the sender, then chunkAndStoreMessage is
\* called
DefaultStore(p, response) ==
    /\ handler[p].pc = "default.store"
    /\ response = "user" => handler[p].event.user # NoUser
    /\ response = "no user" => handler[p].event.user = NoUser
    /\ IF response # "user"
       THEN /\ handler' = Caught(p, "users.info")
            /\ UNCHANGED tasks
       ELSE /\ handler' = Goto(p, "default.storing")
            /\ tasks' = [tasks EXCEPT ![p] =
                            CallEntry(handler[p].event.channel, threadTsOf(handler[p].event),
                                      Render(handler[p].storable), handler[p].event.user,
                                      parseTs(handler[p].event.ts))]
    /\ UNCHANGED <<messages, nextId, last, calls>>

\* await chunkAndStoreMessage(...) has returned, or has thrown into the catch
\* of router.post
DefaultStored(p) ==
    /\ handler[p].pc = "default.storing"
    /\ tasks[p].pc \in {"done", "failed"}
    /\ handler' = IF tasks[p].pc = "done"
                  THEN [handler EXCEPT ![p].pc = "returned", ![p].stored = TRUE]
                  ELSE Caught(p, "chunkAndStoreMessage")
    /\ tasks' = [tasks EXCEPT ![p] = IdleTask]
    /\ UNCHANGED <<messages, nextId, last, calls>>

UsersInfoResponses == {"user", "no user", "throws"}

\* the steps of the chunkAndStoreMessage call a request has made
StoreStep(p) ==
    \/ EmbedOk(p)
    \/ EmbedFails(p)
    \/ SelectExisting(p)
    \/ WriteUpdate(p)
    \/ WriteInsert(p)

\* What processLink does for the links of a request's event: each link of
\* the first request fares in every way; the event of the request that
\* overlaps it has no link
Outcomes(p) == IF p = "A" THEN PossibleOutcomes ELSE {AllLinksOk}

\* the steps of a request that has been received
HandlerStep(p) ==
    \/ \E response \in UsersInfoResponses : UsersInfo(p, response)
    \/ \E ok \in BOOLEAN : ConversationsInfo(p, ok)
    \/ Switch(p)
    \/ Join(p)
    \/ \E ok \in BOOLEAN : JoinInfo(p, ok)
    \/ \E ok \in BOOLEAN : JoinWelcome(p, ok)
    \/ \E ok \in BOOLEAN, more \in BOOLEAN, message \in HistoryMessages, infoOk \in BOOLEAN :
         JoinHistory(p, ok, HistoryLimit, more, message, infoOk)
    \/ JoinStored(p)
    \/ \E ok \in BOOLEAN : JoinDone(p, ok)
    \/ Leave(p)
    \/ \E ok \in BOOLEAN : MentionReact(p, ok)
    \/ \E infoOk \in BOOLEAN, outcome \in Outcomes(p), postOk \in BOOLEAN :
         MentionPayload(p, infoOk, outcome, postOk)
    \/ \E outcome \in Outcomes(p), postOk \in BOOLEAN : MentionLinks(p, outcome, postOk)
    \/ \E ok \in BOOLEAN : MentionContext(p, ok)
    \/ \E ok \in BOOLEAN : MentionThread(p, ok)
    \/ \E generateOk \in BOOLEAN, answerOk \in BOOLEAN, apologyOk \in BOOLEAN :
         MentionAnswer(p, generateOk, answerOk, apologyOk)
    \/ \E outcome \in Outcomes(p), reactionOk \in BOOLEAN : DefaultLinks(p, outcome, reactionOk)
    \/ \E infoOk \in BOOLEAN, outcome \in Outcomes(p), postOk \in BOOLEAN :
         DefaultPayload(p, infoOk, outcome, postOk)
    \/ \E response \in UsersInfoResponses : DefaultStore(p, response)
    \/ DefaultStored(p)
    \/ StoreStep(p)

\* Handler specification: a request carrying any event of Events, and a
\* second request, carrying an event of OverlapEvents, that arrives before,
\* during or after the handling of the first.
NextHandler ==
    \/ \E event \in Events : Receive("A", event)
    \/ \E event \in OverlapEvents : Receive("B", event)
    \/ \E p \in Tasks : HandlerStep(p)

SpecHandler == Init /\ [][NextHandler]_vars

\* Backfill specification: the bot is added to a channel, and the history
\* pages it reads may hold any number of messages of PageSizes.
NextBackfill ==
    \/ \E event \in JoinEvents : Receive("A", event)
    \/ \E p \in Tasks, response \in UsersInfoResponses : UsersInfo(p, response)
    \/ \E p \in Tasks, ok \in BOOLEAN : ConversationsInfo(p, ok)
    \/ \E p \in Tasks : Switch(p)
    \/ \E p \in Tasks : Join(p)
    \/ \E p \in Tasks, ok \in BOOLEAN : JoinInfo(p, ok)
    \/ \E p \in Tasks, ok \in BOOLEAN : JoinWelcome(p, ok)
    \/ \E p \in Tasks, ok \in BOOLEAN, size \in PageSizes, more \in BOOLEAN, message \in HistoryMessages, infoOk \in BOOLEAN :
         JoinHistory(p, ok, size, more, message, infoOk)
    \/ \E p \in Tasks : StoreStep(p)
    \/ \E p \in Tasks : JoinStored(p)
    \/ \E p \in Tasks, ok \in BOOLEAN : JoinDone(p, ok)

SpecBackfill == Init /\ [][NextBackfill]_vars

\* The same, with every await of the handler resumed once its call has
\* answered or thrown: a step that can be taken is taken.
SpecBackfillFair == Init /\ [][NextBackfill]_vars /\ WF_vars(NextBackfill)

----------------------------------------------------------------------------
(* Claims settled under SpecHandler *)

\* the links processLink is called for while the document of the handled
\* event is assembled, and those of them for which it returns
linksOfDocument(p) == {l \in Links : \E b \in 1..Len(handler[p].storable.blocks) : handler[p].storable.blocks[b].kind # "text" /\ handler[p].storable.blocks[b].of = <<l>>}

\* the failures of the services the handler talks to
CollaboratorFaults == {"users.info", "conversations.info", "conversations.replies", "reactions.add", "chat.postMessage", "permission notice", "processLink", "link summary", "getRelevantContext", "chunkAndStoreMessage", "messages.create"}

\* C6 (Retention): once the handler has finished with an event of type
\* group_left, member_left_channel or channel_left for channel c, no service
\* having failed, it has called deleteChannelMessages(c) and the table holds
\* no row of channel c, whatever the other fields of the event are.
C6_LeaveDeletesChannel ==
    \A p \in Tasks :
        (Finished(p) /\ handler[p].event.type \in LeaveTypes /\ handler[p].faults \cap CollaboratorFaults = {})
            => /\ handler[p].deleted
               /\ \A r \in messages : r.channel_name # handler[p].event.channel

\* C7 (Best-effort reply): once the handler has finished with an app_mention
\* event during which getRelevantContext failed (its embedding request or its
\* search threw), it has attempted to post the answer or the apology to the
\* thread.
C7_ReplyAttempted ==
    \A p \in Tasks :
        (Finished(p) /\ handler[p].event.type = "app_mention" /\ "getRelevantContext" \in handler[p].faults)
            => handler[p].attempted # {}

\* C8 (Link-failure isolation): once the handler has finished with a message
\* event written by a user, during which processLink threw for some link and
\* nothing else failed but the reaction to that error, processMessageContent
\* has returned a non-null document that holds the text and a block of every
\* link whose processLink returned, and that document has been stored.
C8_LinkFailureIsolated ==
    \A p \in Tasks :
        (/\ Finished(p)
         /\ handler[p].event.type = "message"
         /\ handler[p].event.user \in Users
         /\ "processLink" \in handler[p].faults
         /\ handler[p].faults \subseteq {"processLink", "permission notice", "link summary"})
            => /\ ~handler[p].storable.null
               /\ \E b \in 1..Len(handler[p].storable.blocks) : handler[p].storable.blocks[b].kind = "text"
               /\ \A l \in {handler[p].event.links[i] : i \in 1..Len(handler[p].event.links)} : handler[p].outcome[l] = "ok" => l \in linksOfDocument(p)
               /\ handler[p].stored

\* the thread as it would be without the replies of the bot
isHumanReply(threadMessage) == threadMessage.user # Bot
humanReplies(threadMessages) == SelectSeq(threadMessages, isHumanReply)

\* C13 (No self-ingestion): no row of the table holds text of the bot or names
\* the bot as its sender, whatever requests overlap; while and after an event
\* of the bot is handled the document is null, chunkAndStoreMessage is not
\* called and nothing is stored; and the document assembled for a thread is
\* the one that would be assembled if the bot's replies were not in the
\* thread at all.
C13_NoSelfIngestion ==
    /\ \A r \in messages :
          /\ r.user_name # Bot
          /\ \A i \in 1..Len(r.content) : r.content[i] # BotText[1]
    /\ \A p \in Tasks :
          /\ (handler[p].pc # "idle" /\ handler[p].event.user = Bot)
                => (handler[p].storable.null /\ ~handler[p].stored)
          /\ handler[p].pc \in {"default.payload", "mention.payload"} =>
                \A threadResponse \in ThreadResponses(handler[p].event), outcome \in PossibleOutcomes, postOk \in BOOLEAN :
                    processMessageContent(payloadMessage(handler[p]), threadResponse, outcome, postOk)
                      = processMessageContent(payloadMessage(handler[p]), [threadResponse EXCEPT !.messages = humanReplies(@)], outcome, postOk)

\* a document stored for a reply in a thread that the bot had written in
C13_Witness ==
    \E p \in Tasks :
        /\ handler[p].stored
        /\ \E j \in 1..Len(handler[p].thread) : handler[p].thread[j].user = Bot
        /\ \E r \in messages : r.channel_name = handler[p].event.channel /\ r.thread_ts = threadTsOf(handler[p].event)

\* the positions of router.post: before an event, at each awaited call of
\* its branches, and after its return or its catch
Positions == {"idle", "users.info", "conversations.info", "switch", "join", "join.info", "join.welcome", "join.history", "join.storing", "join.done", "leave", "mention.react", "mention.payload", "mention.links", "mention.context", "mention.thread", "mention.answer", "default.links", "default.payload", "default.store", "default.storing", "returned", "caught"}

\* C16 (Handler containment): no error leaves router.post, whatever the
\* event (a body without an event included) and whichever service fails at
\* whichever step: every handler is always at one of its own positions,
\* never past an uncaught error, and once a handler has ended, by return or
\* in its catch, the next event is received.
C16_Containment ==
    /\ \A p \in Tasks : handler[p].pc \in Positions /\ handler[p].pc # "escaped"
    /\ \A p, q \in Tasks :
          (Finished(p) /\ handler[q].pc = "idle" /\ calls < MaxEvents) => ENABLED Receive(q, MalformedEvent)

\* a message stored by the handler although the request before it had ended
\* in the catch of the handler
C16_Witness ==
    \E p \in Tasks :
        /\ handler[p].previous = {"caught"}
        /\ handler[p].pc = "returned"
        /\ handler[p].event.type = "message"
        /\ handler[p].stored

\* C21 (Generative failure handling): a step of the app_mention branch at
\* the answer that does not get the answer posted, because messages.create
\* or the post of the answer threw, calls chat.postMessage with the apology;
\* the handler then ends by return with the apology as its last post, or in
\* its own catch when the apology post threw as well.
C21_ApologyOnFailure ==
    [][\A p \in Tasks :
         /\ (handler[p].pc = "mention.answer" /\ handler'[p] # handler[p] /\ handler'[p].posted = handler[p].posted)
              => ("apology" \in handler'[p].attempted /\ handler'[p].pc = "caught")
         /\ (handler[p].pc = "mention.answer" /\ handler'[p].posted # handler[p].posted /\ handler'[p].faults # handler[p].faults)
              => /\ "apology" \in handler'[p].attempted
                 /\ handler'[p].pc = "returned"
                 /\ handler'[p].posted = Append(handler[p].posted, "apology")]_vars

\* an apology posted after messages.create threw, and one after the post of
\* the answer threw
C21_Witness ==
    \E p \in Tasks :
        /\ handler[p].pc = "returned"
        /\ handler[p].event.type = "app_mention"
        /\ "apology" \in handler[p].attempted
        /\ Len(handler[p].posted) > 0
        /\ handler[p].posted[Len(handler[p].posted)] = "apology"
        /\ "messages.create" \in handler[p].faults

\* the ids the handler takes for the bot's: SLACK_BOT_ID, and the user of
\* the request's first authorization, which the join branch compares with
botIds(event) == {Bot, event.authorizations}

\* C28 (Deletion only when the bot leaves): a handler has called
\* deleteChannelMessages only for an event whose user is the bot; and no
\* step a handler takes for a leave event of another user changes the table.
C28_DeleteOnlyForBot ==
    /\ [](\A p \in Tasks : handler[p].deleted => handler[p].event.user \in botIds(handler[p].event))
    /\ [][\A p \in Tasks :
            (/\ handler[p].event.type \in LeaveTypes
             /\ handler[p].event.user \notin botIds(handler[p].event)
             /\ handler'[p] # handler[p])
               => messages' = messages]_vars

\* the handler has ended for the leave event of a user who is not the bot,
\* at the reference to deleteChannelMessages, while the table holds rows of
\* the channel left
C28_Witness ==
    \E p \in Tasks :
        /\ Finished(p)
        /\ handler[p].event.type \in LeaveTypes
        /\ handler[p].event.user \notin botIds(handler[p].event)
        /\ "ReferenceError" \in handler[p].faults
        /\ \E r \in messages : r.channel_name = handler[p].event.channel

----------------------------------------------------------------------------
(* Claims settled under SpecBackfill *)

\* C17 (Backfill cap): during a backfill the number of messages processed
\* never exceeds 500, whatever the sizes of the history pages.
C17_BackfillCap == \A p \in Tasks : handler[p].processedCount <= BackfillCap

\* the calls the claim takes to return
BackfillCalls == {"conversations.history", "chat.postMessage"}

\* C30 (Backfill completes): a backfill that has begun to read the history
\* comes to post the completion message, unless conversations.history or
\* chat.postMessage throws; and a message whose processing fails leaves the
\* loop running: the page is counted in full and the next page, or the
\* completion message, follows.
C30_BackfillCompletes ==
    /\ \A p \in Tasks :
          (handler[p].pc = "join.history")
             ~> \/ handler[p].pc = "returned" /\ handler[p].posted = <<"welcome", "completion">>
                \/ Finished(p) /\ handler[p].faults \cap BackfillCalls # {}
    /\ [][\A p \in Tasks :
            (/\ handler[p].pc \in {"join.history", "join.storing"}
             /\ handler'[p] # handler[p]
             /\ "processMessage" \in handler'[p].faults
             /\ handler'[p].faults \cap BackfillCalls = {})
               => /\ handler'[p].page \in PageSizes
                  /\ \/ /\ handler'[p].pc = "join.storing"
                        /\ handler'[p].processedCount = handler[p].processedCount
                     \/ /\ handler'[p].pc \in {"join.history", "join.done"}
                        /\ handler'[p].processedCount = handler[p].processedCount + handler'[p].page]_vars

\* the completion message posted after two pages or more, the processing
\* of a message having failed
C30_Witness ==
    \E p \in Tasks :
        /\ handler[p].pc = "returned"
        /\ handler[p].posted = <<"welcome", "completion">>
        /\ "processMessage" \in handler[p].faults
        /\ handler[p].processedCount > HistoryLimit

----------------------------------------------------------------------------
(* Chunker specification: splitIntoChunks applied to every short text over *)
(* a letter, a terminator and a blank, under every small budget            *)

MaxLen == 8
MaxBudget == 2

Alphabet == {"a", ".", " "}
ABC == <<"A", ".", " ", "B", ".", " ", "C", ".">>
\* sentences the second of which begins with a carriage return and the
\* third with a no-break space
Returns == <<"a", "a", "a", "a", ".", "\r", "b", "b", "b", "b", ".", "\\u00a0", "c", "c", "c", "c">>
ChunkerTexts == (UNION {[1..n -> Alphabet] : n \in 0..MaxLen}) \cup {ABC, Returns}
Budgets == 0..MaxBudget

InitChunker ==
    /\ messages = {}
    /\ nextId = 1
    /\ last \in {[op |-> "text", text |-> text, maxTokens |-> maxTokens] : text \in ChunkerTexts, maxTokens \in Budgets}
    /\ calls = 0
    /\ tasks = NoTasks
    /\ handler = NoRequests

SplitIntoChunks ==
    /\ last.op = "text"
    /\ last' = [op |-> "splitIntoChunks", text |-> last.text, maxTokens |-> last.maxTokens,
                chunks |-> splitIntoChunks(last.text, last.maxTokens)]
    /\ UNCHANGED <<messages, nextId, calls, tasks, handler>>

NextChunker == SplitIntoChunks

SpecChunker == InitChunker /\ [][NextChunker]_vars

\* the largest estimate among the sentences of a text
maxSentenceTokens(text) ==
    LET sentences == splitSentences(text)
    IN  Max({estimateTokens(sentences[i]) : i \in 1..Len(sentences)})

\* C18 (Chunker budget), as stated: for every text and every maxTokens, each
\* chunk splitIntoChunks returns is estimated at no more than maxTokens plus
\* the estimate of one sentence of the text.
C18_ChunkerBudgetOriginal ==
    last.op = "splitIntoChunks" =>
        \A i \in 1..Len(last.chunks) :
            estimateTokens(last.chunks[i]) <= last.maxTokens + maxSentenceTokens(last.text)

\* C18 (Chunker budget), amended: for every text and every maxTokens of 1
\* or more, each chunk splitIntoChunks returns is estimated at no more than
\* maxTokens plus the estimate of one sentence of the text.
C18_ChunkerBudget ==
    (last.op = "splitIntoChunks" /\ last.maxTokens >= 1) =>
        \A i \in 1..Len(last.chunks) :
            estimateTokens(last.chunks[i]) <= last.maxTokens + maxSentenceTokens(last.text)

\* a chunk that does overrun a budget of 1 or more
C18_Witness ==
    /\ last.op = "splitIntoChunks"
    /\ last.maxTokens >= 1
    /\ \E i \in 1..Len(last.chunks) : estimateTokens(last.chunks[i]) > last.maxTokens

\* a chunk or a sentence without its terminators and blanks
bare(text) == SelectSeq(text, LAMBDA c : c \notin Terminators \cup WhitespaceChars)

\* C19 (One chunk per sentence at a tight budget): when every sentence is
\* estimated at exactly maxTokens, splitIntoChunks returns one chunk per
\* sentence, in the order of the text; and "A. B. C." under a budget of 1
\* gives the three chunks A, B, C.
C19_OneChunkPerSentence ==
    last.op = "splitIntoChunks" =>
        LET sentences == splitSentences(last.text)
        IN  /\ (\A i \in 1..Len(sentences) : estimateTokens(sentences[i]) = last.maxTokens)
                => /\ Len(last.chunks) = Len(sentences)
                   /\ \A i \in 1..Len(sentences) : bare(last.chunks[i]) = bare(sentences[i])
            /\ (last.text = ABC /\ last.maxTokens = 1)
                => [i \in 1..Len(last.chunks) |-> bare(last.chunks[i])] = <<<<"A">>, <<"B">>, <<"C">>>>

\* C27 (No empty chunk): every chunk splitIntoChunks returns for a text that
\* is not empty is itself not empty, whatever maxTokens.
C27_NonEmptyChunks ==
    (last.op = "splitIntoChunks" /\ last.text # <<>>) =>
        \A i \in 1..Len(last.chunks) : last.chunks[i] # <<>>

----------------------------------------------------------------------------
(* Embedder specification: generateEmbedding applied to every short text  *)
(* over a letter and a blank, EmbedTokenBudget standing for 8192           *)

EmbedTokenBudget == 2
MaxEmbedLen == 10

EmbedAlphabet == {"a", " "}
\* words set apart by a carriage return, a tab and a no-break space
ReturnWords == <<"a", "a", "\r", "a", "a", "\t", "a", "a", "\\u00a0", "a">>
EmbedTexts == (UNION {[1..n -> EmbedAlphabet] : n \in 0..MaxEmbedLen}) \cup {ReturnWords}

InitEmbedder ==
    /\ messages = {}
    /\ nextId = 1
    /\ last \in {[op |-> "text", text |-> text] : text \in EmbedTexts}
    /\ calls = 0
    /\ tasks = NoTasks
    /\ handler = NoRequests

GenerateEmbedding ==
    /\ last.op = "text"
    /\ last' = [op |-> "generateEmbedding", text |-> last.text,
                input |-> embeddingInput(last.text, EmbedTokenBudget),
                embedding |-> embeddingService(embeddingInput(last.text, EmbedTokenBudget))]
    /\ UNCHANGED <<messages, nextId, calls, tasks, handler>>

NextEmbedder == GenerateEmbedding

SpecEmbedder == InitEmbedder /\ [][NextEmbedder]_vars

\* the summed estimates of the first k words
RECURSIVE prefixTokens(_, _)
prefixTokens(words, k) ==
    IF k = 0 THEN 0 ELSE prefixTokens(words, k - 1) + estimateTokens(words[k])

\* the first k words, one blank between two of them
RECURSIVE joinWords(_, _)
joinWords(words, k) ==
    IF k = 0 THEN <<>>
    ELSE IF k = 1 THEN words[1]
    ELSE joinWords(words, k - 1) \o <<" ">> \o words[k]

\* C20 (Embedder truncation): a text estimated within the budget is sent as
\* it is; any other is sent as the longest prefix of its words whose summed
\* estimates stay within the budget, whole words only.
C20_Truncation ==
    last.op = "generateEmbedding" =>
        LET words == splitWords(last.text)
        IN  IF estimateTokens(last.text) <= EmbedTokenBudget
            THEN last.input = last.text
            ELSE \E k \in 0..Len(words) :
                    /\ prefixTokens(words, k) <= EmbedTokenBudget
                    /\ k < Len(words) => prefixTokens(words, k + 1) > EmbedTokenBudget
                    /\ last.input = trim(joinWords(words, k))

\* a text cut after some of its words and before others
C20_Witness ==
    /\ last.op = "generateEmbedding"
    /\ estimateTokens(last.text) > EmbedTokenBudget
    /\ last.input # <<>>
    /\ Len(splitWords(last.input)) < Len(splitWords(last.text))

\* C29 (Truncation reaches the budget): the text generateEmbedding sends
\* after truncating is estimated at no more than the budget.
C29_TruncatedFits ==
    (last.op = "generateEmbedding" /\ estimateTokens(last.text) > EmbedTokenBudget) =>
        estimateTokens(last.input) <= EmbedTokenBudget

====
